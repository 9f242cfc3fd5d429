------------------------------ MODULE LiveMints ------------------------------
(***************************************************************************)
(* The subscription to the live data of mints.  RatesController, on the    *)
(* main actor, keeps the mints the session needs and tells                 *)
(* LiveMintDataStreamer, an actor, with tasks that nobody awaits; the      *)
(* streamer keeps one stream open and its last request equal to what it    *)
(* was told, through restarts, timeouts, backgrounding and the server's    *)
(* habit of aborting a stream whose request changes.                       *)
(*                                                                         *)
(* The controller's tasks start on the main actor and reach the streamer   *)
(* in the order they were made: all have the same priority.  Times are     *)
(* left out: a timer may fire at any moment after it was set, so the       *)
(* back-off, which only lengthens a delay, is left out with them.  What    *)
(* the stream delivers about the mints is module LiveRates.                *)
(***************************************************************************)
EXTENDS Naturals, Sequences

CONSTANTS
    Mints,      \* the mints a session may need
    Usdf,       \* the core mint, always among them
    Late,       \* a task that has not read streamedMints yet
    MaxCalls,   \* bound: calls of the streamer on their way
    MaxOpens,   \* bound: the streams ever opened
    MaxDue      \* bound: fired timers of a kind that wait for the actor

ASSUME LiveMintsAssumption ==
    /\ Usdf \in Mints /\ \A mints \in SUBSET Mints : mints # Late
    /\ MaxCalls \in Nat \ {0} /\ MaxOpens \in Nat /\ MaxDue \in Nat

None == 0

VARIABLES
    \* RatesController's
    phase,              \* of the app, as the session is told of it
    streamedMints,
    pendingMints,
    revived,            \* history: the stream was asked for again after the logout
    calls,              \* its tasks, oldest first
    \* the streamer's
    subscribedMints,
    isStreaming,
    isReconnecting,
    streamReference,    \* the generation of the stream held, or None
    streamGeneration,
    sentSubscriptionUpdate,
    hasRecentPing,
    \* its timers
    pingTimer,          \* pingTimeoutTask sleeps
    timeouts,           \* handleTimeout calls waiting for the actor
    reconnectTimer,     \* reconnectTask sleeps
    strayTimers,        \* tasks reconnectTask was overwritten over, asleep
    reconnects,         \* performReconnect calls waiting for the actor
    \* the streams
    up,                 \* the generations whose call runs, the held one's or none
    callbacks,          \* what waits for the actor: a generation and what it says
    request,            \* the mints of the last request sent on the held stream
    serves              \* the mints the server sends on it

controllerVars == <<phase, streamedMints, pendingMints, revived>>
timers == <<pingTimer, timeouts, reconnectTimer, strayTimers, reconnects>>
streamVars == <<streamReference, streamGeneration, up, request, serves>>
streamerVars == <<subscribedMints, isStreaming, isReconnecting, sentSubscriptionUpdate,
                  hasRecentPing>>
vars == <<controllerVars, calls, streamerVars, timers, streamVars, callbacks>>

Carriers == {"start", "updateMints"}    \* the calls that carry mints
Calls == [op : Carriers \cup {"ensureConnected", "stop"}, mints : {Late} \cup SUBSET Mints]
Generations == 1..MaxOpens

\* A ping, the abort that may follow a changed request, any other end.
Callbacks == {"ping", "aborted", "closed"}

TypeOK ==
    /\ phase \in {"active", "background", "loggedOut"}
    /\ streamedMints \subseteq Mints /\ Usdf \in streamedMints
    /\ pendingMints \subseteq streamedMints
    /\ revived \in BOOLEAN
    /\ calls \in Seq(Calls)
    /\ subscribedMints \subseteq Mints
    /\ isStreaming \in BOOLEAN /\ isReconnecting \in BOOLEAN
    /\ sentSubscriptionUpdate \in BOOLEAN /\ hasRecentPing \in BOOLEAN
    /\ streamGeneration \in 0..MaxOpens
    /\ streamReference \in {None, streamGeneration}
    /\ pingTimer \in BOOLEAN /\ reconnectTimer \in BOOLEAN
    /\ timeouts \in Nat /\ strayTimers \in Nat /\ reconnects \in Nat
    /\ up \subseteq Generations
    /\ callbacks \subseteq Generations \X Callbacks
    /\ request \subseteq Mints /\ serves \subseteq Mints

\* RatesController.init and Session's startStreaming, with the balances' mints.
Init ==
    /\ phase = "active"
    /\ \E owned \in SUBSET Mints : streamedMints = owned \cup {Usdf}
    /\ pendingMints = {} /\ revived = FALSE
    /\ calls = <<[op |-> "start", mints |-> Late]>>
    /\ subscribedMints = {}
    /\ isStreaming = FALSE /\ isReconnecting = FALSE
    /\ sentSubscriptionUpdate = FALSE /\ hasRecentPing = FALSE
    /\ streamReference = None /\ streamGeneration = 0
    /\ pingTimer = FALSE /\ timeouts = 0
    /\ reconnectTimer = FALSE /\ strayTimers = 0 /\ reconnects = 0
    /\ up = {} /\ callbacks = {} /\ request = {} /\ serves = {}

-----------------------------------------------------------------------------
(* The controller.                                                         *)

Tell(op, mints) ==
    /\ Len(calls) < MaxCalls
    /\ calls' = Append(calls, [op |-> op, mints |-> mints])

streamerUnchanged == <<streamerVars, timers, streamVars, callbacks>>

\* Mutant: the pending mints are forgotten.
UpdateFromBalancesOnly(owned) ==
    /\ pendingMints' = pendingMints \ owned
    /\ streamedMints' = owned \cup {Usdf}
    /\ Tell("updateMints", streamedMints')
    /\ UNCHANGED <<phase, revived, streamerUnchanged>>

\* The balances changed; the task captures the merged set.
UpdateSubscribedMints(owned) ==
    /\ streamedMints' = owned \cup pendingMints \cup {Usdf}
    /\ pendingMints' = pendingMints \ owned
    /\ Tell("updateMints", streamedMints')
    /\ UNCHANGED <<phase, revived, streamerUnchanged>>

\* A mint that is needed before it is owned; the core mint, always streamed, would
\* only be noted.  The task reads streamedMints when it runs.
EnsureMintSubscribed(mint) ==
    /\ pendingMints' = pendingMints \cup {mint}
    /\ streamedMints' = streamedMints \cup {mint}
    /\ IF mint \in streamedMints
       THEN UNCHANGED calls
       ELSE Tell("updateMints", Late)
    /\ UNCHANGED <<phase, revived, streamerUnchanged>>

\* The oldest task that reads streamedMints late runs on the main actor.
TaskReadsMints ==
    \E i \in 1..Len(calls) :
        /\ calls[i].mints = Late
        /\ \A j \in 1..(i - 1) : calls[j].mints # Late
        /\ calls' = [calls EXCEPT ![i].mints = streamedMints]
        /\ UNCHANGED <<controllerVars, streamerUnchanged>>

\* A tip card asks for the stream when its recipient is known.  The task that waits
\* for the recipient outlives the app's being in front, and the session.
EnsureStreamConnected ==
    /\ Tell("ensureConnected", {})
    /\ revived' = (phase = "loggedOut")
    /\ UNCHANGED <<phase, streamedMints, pendingMints, streamerUnchanged>>

BecomeActive ==
    /\ phase = "background"
    /\ phase' = "active"
    /\ Tell("ensureConnected", {})
    /\ UNCHANGED <<streamedMints, pendingMints, revived, streamerUnchanged>>

EnterBackground ==
    /\ phase = "active"
    /\ phase' = "background"
    /\ Tell("stop", {})
    /\ UNCHANGED <<streamedMints, pendingMints, revived, streamerUnchanged>>

PrepareForLogout ==
    /\ phase # "loggedOut"
    /\ phase' = "loggedOut"
    /\ pendingMints' = {}
    /\ Tell("stop", {})
    /\ UNCHANGED <<streamedMints, revived, streamerUnchanged>>

Controller ==
    \/ \E owned \in SUBSET Mints : UpdateSubscribedMints(owned)
    \/ \E mint \in Mints \ {Usdf} : EnsureMintSubscribed(mint)
    \/ TaskReadsMints
    \/ EnsureStreamConnected \/ BecomeActive \/ EnterBackground \/ PrepareForLogout

-----------------------------------------------------------------------------
(* What the streamer's methods share.                                      *)

\* streamReference?.cancel(); streamReference = nil.
DropStream ==
    /\ up' = {} /\ request' = {} /\ serves' = {}
    /\ streamReference' = None
    /\ UNCHANGED streamGeneration

\* openStream, past its guard: a new generation replaces the stream held, and the
\* current subscription is its first request.
OpenStream(mints) ==
    /\ streamGeneration < MaxOpens
    /\ streamGeneration' = streamGeneration + 1
    /\ streamReference' = streamGeneration'
    /\ up' = {streamGeneration'}
    /\ request' = mints /\ serves' = {}
    /\ isReconnecting' = FALSE
    /\ pingTimer' = TRUE /\ hasRecentPing' = TRUE

\* reconnect, past its guard: tears the stream down and sets the timer for the
\* next.  A timer still asleep is overwritten, not cancelled.
Reconnect ==
    /\ isReconnecting' = TRUE
    /\ pingTimer' = FALSE /\ hasRecentPing' = FALSE
    /\ DropStream
    /\ strayTimers' = strayTimers + (IF reconnectTimer THEN 1 ELSE 0)
    /\ reconnectTimer' = TRUE

reconnectUnchanged == <<isReconnecting, pingTimer, hasRecentPing, streamVars, strayTimers,
                        reconnectTimer>>

ReconnectOnce ==
    \/ isStreaming /\ ~isReconnecting /\ Reconnect
    \/ ~(isStreaming /\ ~isReconnecting) /\ UNCHANGED reconnectUnchanged

-----------------------------------------------------------------------------
(* The streamer's calls.                                                   *)

Call(op) ==
    /\ calls # <<>> /\ Head(calls).op = op /\ Head(calls).mints # Late
    /\ calls' = Tail(calls)
    /\ UNCHANGED <<controllerVars, timeouts, reconnects, callbacks>>

\* Mutant: the new set is kept and not sent.
ChangeMintsUnsent(mints) ==
    /\ subscribedMints' = mints
    /\ \/ /\ isStreaming /\ streamReference = None
          /\ OpenStream(mints)
          /\ UNCHANGED sentSubscriptionUpdate
       \/ /\ ~isStreaming \/ streamReference # None
          /\ UNCHANGED <<sentSubscriptionUpdate, streamVars, isReconnecting, pingTimer,
                         hasRecentPing>>

\* updateMints, past its guard: the new set goes out on the stream held; without one
\* a stream is opened, whatever timer a reconnect has set.
ChangeMints(mints) ==
    /\ subscribedMints' = mints
    /\ \/ /\ isStreaming /\ streamReference # None
          /\ request' = mints
          /\ sentSubscriptionUpdate' = TRUE
          /\ UNCHANGED <<streamReference, streamGeneration, up, serves, isReconnecting,
                         pingTimer, hasRecentPing>>
       \/ /\ isStreaming /\ streamReference = None
          /\ OpenStream(mints)
          /\ UNCHANGED sentSubscriptionUpdate
       \/ /\ ~isStreaming
          /\ UNCHANGED <<sentSubscriptionUpdate, streamVars, isReconnecting, pingTimer,
                         hasRecentPing>>

UpdateMints ==
    /\ Call("updateMints")
    /\ LET mints == Head(calls).mints
       IN  \/ mints # subscribedMints /\ ChangeMints(mints)
           \/ mints = subscribedMints /\ UNCHANGED <<streamerVars, streamVars, pingTimer>>
    /\ UNCHANGED <<isStreaming, reconnectTimer, strayTimers>>

Start ==
    /\ Call("start")
    /\ LET mints == Head(calls).mints
       IN  \/ /\ ~isStreaming
              /\ subscribedMints' = mints /\ isStreaming' = TRUE
              /\ OpenStream(mints)
              /\ UNCHANGED sentSubscriptionUpdate
           \/ /\ isStreaming /\ mints # subscribedMints
              /\ ChangeMints(mints) /\ UNCHANGED isStreaming
           \/ /\ isStreaming /\ mints = subscribedMints
              /\ UNCHANGED <<streamerVars, streamVars, pingTimer>>
    /\ UNCHANGED <<reconnectTimer, strayTimers>>

\* Stopped: streaming starts again.  Otherwise a stream without a recent ping is
\* replaced, and any wait for a reconnect with it.
EnsureConnected ==
    /\ Call("ensureConnected")
    /\ \/ /\ subscribedMints # {} /\ ~isStreaming
          /\ isStreaming' = TRUE
          /\ OpenStream(subscribedMints)
          /\ UNCHANGED reconnectTimer
       \/ /\ subscribedMints # {} /\ isStreaming
          /\ streamReference = None \/ ~hasRecentPing \/ isReconnecting
          /\ reconnectTimer' = FALSE
          /\ OpenStream(subscribedMints)
          /\ UNCHANGED isStreaming
       \/ /\ \/ subscribedMints = {}
             \/ isStreaming /\ streamReference # None /\ hasRecentPing /\ ~isReconnecting
          /\ UNCHANGED <<isStreaming, isReconnecting, hasRecentPing, streamVars, pingTimer,
                         reconnectTimer>>
    /\ UNCHANGED <<subscribedMints, sentSubscriptionUpdate, strayTimers>>

\* Mutant: the subscription does not survive the stop.
StopForgets ==
    /\ Call("stop")
    /\ isStreaming' = FALSE /\ isReconnecting' = FALSE /\ sentSubscriptionUpdate' = FALSE
    /\ pingTimer' = FALSE /\ hasRecentPing' = FALSE /\ reconnectTimer' = FALSE
    /\ DropStream
    /\ subscribedMints' = {}
    /\ UNCHANGED strayTimers

Stop ==
    /\ Call("stop")
    /\ isStreaming' = FALSE /\ isReconnecting' = FALSE /\ sentSubscriptionUpdate' = FALSE
    /\ pingTimer' = FALSE /\ hasRecentPing' = FALSE /\ reconnectTimer' = FALSE
    /\ DropStream
    /\ UNCHANGED <<subscribedMints, strayTimers>>

CallsTaken == UpdateMints \/ Start \/ EnsureConnected \/ Stop

-----------------------------------------------------------------------------
(* The timers.                                                             *)

\* The ping timer wakes uncancelled and calls the actor.
PingTimerFires ==
    /\ pingTimer /\ timeouts < MaxDue
    /\ pingTimer' = FALSE /\ timeouts' = timeouts + 1
    /\ UNCHANGED <<controllerVars, calls, streamerVars, streamVars, callbacks,
                   reconnectTimer, strayTimers, reconnects>>

HandleTimeout ==
    /\ timeouts > 0
    /\ timeouts' = timeouts - 1
    /\ ReconnectOnce
    /\ UNCHANGED <<controllerVars, calls, subscribedMints, isStreaming,
                   sentSubscriptionUpdate, reconnects, callbacks>>

ReconnectTimerFires ==
    /\ reconnects < MaxDue
    /\ reconnects' = reconnects + 1
    /\ \/ reconnectTimer /\ reconnectTimer' = FALSE /\ UNCHANGED strayTimers
       \/ strayTimers > 0 /\ strayTimers' = strayTimers - 1 /\ UNCHANGED reconnectTimer
    /\ UNCHANGED <<controllerVars, calls, streamerVars, streamVars, callbacks, pingTimer,
                   timeouts>>

\* Mutant: no stream is opened before the tracker has seen a ping.
PerformReconnectWaits ==
    /\ reconnects > 0
    /\ reconnects' = reconnects - 1
    /\ \/ /\ isStreaming /\ hasRecentPing /\ OpenStream(subscribedMints)
          /\ UNCHANGED <<reconnectTimer, strayTimers>>
       \/ /\ isStreaming /\ ~hasRecentPing
          /\ Reconnect
       \/ /\ ~isStreaming
          /\ isReconnecting' = FALSE
          /\ UNCHANGED <<streamVars, pingTimer, hasRecentPing, reconnectTimer, strayTimers>>
    /\ UNCHANGED <<controllerVars, calls, subscribedMints, isStreaming,
                   sentSubscriptionUpdate, timeouts, callbacks>>

PerformReconnect ==
    /\ reconnects > 0
    /\ reconnects' = reconnects - 1
    /\ \/ isStreaming /\ OpenStream(subscribedMints)
       \/ /\ ~isStreaming
          /\ isReconnecting' = FALSE
          /\ UNCHANGED <<streamVars, pingTimer, hasRecentPing>>
    /\ UNCHANGED <<controllerVars, calls, subscribedMints, isStreaming,
                   sentSubscriptionUpdate, timeouts, reconnectTimer, strayTimers,
                   callbacks>>

\* PingTracker's window passes without a ping.
PingGrowsOld ==
    /\ hasRecentPing
    /\ hasRecentPing' = FALSE
    /\ UNCHANGED <<controllerVars, calls, subscribedMints, isStreaming, isReconnecting,
                   sentSubscriptionUpdate, timers, streamVars, callbacks>>

Timers ==
    PingTimerFires \/ HandleTimeout \/ ReconnectTimerFires \/ PerformReconnect \/ PingGrowsOld

-----------------------------------------------------------------------------
(* The streams.                                                            *)

outsideUnchanged == <<controllerVars, calls, streamerVars, timers>>

\* The server takes up the last request it was sent.
ServerReads(g) ==
    /\ g \in up
    /\ serves # request
    /\ serves' = request
    /\ UNCHANGED <<streamReference, streamGeneration, up, request, callbacks,
                   outsideUnchanged>>

ServerPings(g) ==
    /\ g \in up
    /\ callbacks' = callbacks \cup {<<g, "ping">>}
    /\ UNCHANGED <<streamVars, outsideUnchanged>>

\* The call ends: a changed request may end it with `aborted`.
Ends(g) ==
    /\ g \in up
    /\ up' = up \ {g} /\ serves' = {}
    /\ \E c \in {"aborted", "closed"} : callbacks' = callbacks \cup {<<g, c>>}
    /\ UNCHANGED <<streamReference, streamGeneration, request, outsideUnchanged>>

Taken(g, c) ==
    /\ <<g, c>> \in callbacks
    /\ callbacks' = callbacks \ {<<g, c>>}
    /\ UNCHANGED <<controllerVars, calls, subscribedMints, isStreaming, timeouts, reconnects>>

\* A callback of a generation that is no longer current does nothing.
HandleStale(g, c) ==
    /\ Taken(g, c)
    /\ g # streamGeneration
    /\ UNCHANGED <<isReconnecting, sentSubscriptionUpdate, hasRecentPing, timers, streamVars>>

HandlePing(g) ==
    /\ Taken(g, "ping")
    /\ g = streamGeneration
    /\ hasRecentPing' = TRUE /\ pingTimer' = TRUE
    /\ UNCHANGED <<isReconnecting, sentSubscriptionUpdate, reconnectTimer, strayTimers,
                   streamVars>>

\* Mutant: resetAndTeardown without the open.
ImmediateTeardown ==
    /\ isReconnecting' = FALSE
    /\ pingTimer' = FALSE /\ hasRecentPing' = FALSE /\ reconnectTimer' = FALSE
    /\ DropStream
    /\ UNCHANGED strayTimers

ImmediateReconnect ==
    /\ reconnectTimer' = FALSE
    /\ OpenStream(subscribedMints)
    /\ UNCHANGED strayTimers

\* The end of a stream whose request was changed: it is opened again at once.
HandleUpdateAbort(g) ==
    /\ Taken(g, "aborted")
    /\ g = streamGeneration /\ sentSubscriptionUpdate
    /\ sentSubscriptionUpdate' = FALSE
    /\ \/ isStreaming /\ ImmediateReconnect
       \/ ~isStreaming /\ UNCHANGED reconnectUnchanged

HandleEnd(g) ==
    /\ \/ Taken(g, "closed")
       \/ Taken(g, "aborted") /\ ~sentSubscriptionUpdate
    /\ g = streamGeneration
    /\ sentSubscriptionUpdate' = FALSE
    /\ ReconnectOnce

Handle(g) ==
    \/ \E c \in Callbacks : HandleStale(g, c)
    \/ HandlePing(g) \/ HandleUpdateAbort(g) \/ HandleEnd(g)

Streams ==
    \E g \in Generations : ServerReads(g) \/ ServerPings(g) \/ Ends(g) \/ Handle(g)

Next == Controller \/ CallsTaken \/ Timers \/ Streams

Spec == Init /\ [][Next]_vars

\* The main actor and the streamer run what waits for them, timers fire, and the
\* server reads what it is sent.
Fairness ==
    /\ WF_vars(TaskReadsMints) /\ WF_vars(CallsTaken)
    /\ WF_vars(PingTimerFires) /\ WF_vars(HandleTimeout)
    /\ WF_vars(ReconnectTimerFires) /\ WF_vars(PerformReconnect)
    /\ \A g \in Generations : WF_vars(ServerReads(g)) /\ WF_vars(Handle(g))

FairSpec == Spec /\ Fairness

-----------------------------------------------------------------------------
(* Properties.                                                             *)

\* The last request of the stream held is the current subscription: no reopening,
\* restart or update between two openings leaves the server with an older set.
RequestsTheSubscription ==
    streamReference # None => request = subscribedMints

\* A streamer that should be streaming is never wedged, although updateMints opens
\* a stream in the middle of a reconnect and an update's abort skips the wait.
NotWedged ==
    isStreaming =>
        IF isReconnecting
        THEN reconnectTimer \/ strayTimers > 0 \/ reconnects > 0
        ELSE streamReference # None /\ (pingTimer \/ timeouts > 0)

\* Once the controller's tasks are through, the streamer has the controller's
\* mints and streams if the app is in front; after a logout it streams only if
\* something asked for the stream after it, never for a call, a timer or a callback
\* that the logout's stop crossed.
SettledFollowsApp ==
    calls = <<>> =>
        /\ subscribedMints = streamedMints
        /\ phase = "active" => isStreaming
        /\ phase = "loggedOut" /\ isStreaming => revived

\* The server holds a stream on which it sends m's data.
Served(m) == up # {} /\ m \in serves

\* A mint that stays wanted while the app is in front is served in the end, pending
\* or owned, through every reopening; until the model's streams are used up.
WantedMintsAreServed ==
    \A m \in Mints :
        []<>(Served(m) \/ m \notin streamedMints \/ phase # "active"
                \/ streamGeneration = MaxOpens)
=============================================================================
