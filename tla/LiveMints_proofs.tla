--------------------------- MODULE LiveMints_proofs ---------------------------
(***************************************************************************)
(* For any mints, any number of calls on their way, of streams and of late *)
(* timers: the stream held was asked for the current subscription, the     *)
(* streamer is never wedged, and once its calls are through it has the     *)
(* controller's mints, streams if the app is in front and, after a logout, *)
(* only if it was asked to after it.                                       *)
(***************************************************************************)
EXTENDS LiveMints, SequenceTheorems, TLAPS

\* What TypeOK says of the streamer and of what it shares with its streams.
StreamerTyped ==
    /\ subscribedMints \subseteq Mints
    /\ isStreaming \in BOOLEAN /\ isReconnecting \in BOOLEAN
    /\ sentSubscriptionUpdate \in BOOLEAN /\ hasRecentPing \in BOOLEAN
    /\ streamGeneration \in 0..MaxOpens
    /\ streamReference \in {None, streamGeneration}
    /\ pingTimer \in BOOLEAN /\ reconnectTimer \in BOOLEAN
    /\ timeouts \in Nat /\ strayTimers \in Nat /\ reconnects \in Nat
    /\ up \subseteq Generations
    /\ callbacks \subseteq Generations \X Callbacks
    /\ request \subseteq Mints /\ serves \subseteq Mints

\* What TypeOK says of the controller.
ControllerTyped ==
    /\ phase \in {"active", "background", "loggedOut"}
    /\ streamedMints \subseteq Mints /\ Usdf \in streamedMints
    /\ pendingMints \subseteq streamedMints
    /\ revived \in BOOLEAN
    /\ calls \in Seq(Calls)

LEMMA TypeSplit == TypeOK <=> ControllerTyped /\ StreamerTyped
BY DEF TypeOK, ControllerTyped, StreamerTyped

\* A stream is held only while streaming.
HeldWhileStreaming == streamReference # None => isStreaming

\* The streamer's half of the inductive invariant, and the whole of it.
StreamerInv == StreamerTyped /\ RequestsTheSubscription /\ NotWedged /\ HeldWhileStreaming

Inv == ControllerTyped /\ StreamerInv

LEMMA InvInit == Init => Inv
<1> SUFFICES ASSUME Init PROVE Inv
    OBVIOUS
<1>1. StreamerTyped
  <2>1. 0 \in 0..MaxOpens
      BY LiveMintsAssumption
  <2> QED
      BY <2>1 DEF Init, StreamerTyped, None
<1>2. RequestsTheSubscription /\ NotWedged /\ HeldWhileStreaming
    BY DEF Init, RequestsTheSubscription, NotWedged, HeldWhileStreaming
<1>3. calls \in Seq(Calls)
  <2>1. [op |-> "start", mints |-> Late] \in Calls
      BY DEF Calls, Carriers
  <2> QED
      BY <2>1 DEF Init
<1>4. ControllerTyped
    BY <1>3, LiveMintsAssumption DEF Init, ControllerTyped
<1> QED
    BY <1>1, <1>2, <1>4 DEF Inv, StreamerInv

-----------------------------------------------------------------------------
(* The streamer's own steps.                                               *)

\* openStream sends the mints it is given on the only stream held.
LEMMA OpenStreamKeeps ==
    ASSUME StreamerTyped, NEW mints \in SUBSET Mints, OpenStream(mints)
    PROVE  /\ streamGeneration' \in 0..MaxOpens
           /\ streamReference' = streamGeneration' /\ streamReference' # None
           /\ up' \subseteq Generations
           /\ request' = mints /\ serves' = {}
           /\ isReconnecting' = FALSE /\ pingTimer' = TRUE /\ hasRecentPing' = TRUE
<1>1. /\ streamGeneration' \in 0..MaxOpens /\ streamGeneration' # None
      /\ streamGeneration' \in Generations
    BY LiveMintsAssumption DEF OpenStream, StreamerTyped, Generations, None
<1> QED
    BY <1>1 DEF OpenStream

\* reconnect leaves a timer that will open the next stream.
LEMMA ReconnectKeeps ==
    ASSUME StreamerInv, ReconnectOnce,
           UNCHANGED <<subscribedMints, isStreaming, reconnects>>, timeouts' \in Nat,
           sentSubscriptionUpdate' \in BOOLEAN, callbacks' \subseteq callbacks
    PROVE  StreamerInv'
<1>1. CASE isStreaming /\ ~isReconnecting
  <2>1. Reconnect
      BY <1>1 DEF ReconnectOnce
  <2>2. /\ isReconnecting' = TRUE /\ pingTimer' = FALSE /\ hasRecentPing' = FALSE
        /\ up' = {} /\ request' = {} /\ serves' = {} /\ streamReference' = None
        /\ streamGeneration' = streamGeneration /\ reconnectTimer' = TRUE
      BY <2>1 DEF Reconnect, DropStream
  <2>3. strayTimers' \in Nat
      BY <2>1 DEF Reconnect, StreamerInv, StreamerTyped
  <2> QED
      BY <2>2, <2>3 DEF StreamerInv, StreamerTyped, RequestsTheSubscription, NotWedged,
          HeldWhileStreaming
<1>2. CASE ~(isStreaming /\ ~isReconnecting)
  <2>1. UNCHANGED reconnectUnchanged
      BY <1>2 DEF ReconnectOnce
  <2>2. StreamerTyped' /\ RequestsTheSubscription' /\ HeldWhileStreaming'
      BY <2>1 DEF reconnectUnchanged, streamVars, StreamerInv, StreamerTyped,
                  RequestsTheSubscription, HeldWhileStreaming
  <2>3. NotWedged'
      BY <1>2, <2>1 DEF reconnectUnchanged, streamVars, StreamerInv, StreamerTyped, NotWedged
  <2> QED
      BY <2>2, <2>3 DEF StreamerInv
<1> QED
    BY <1>1, <1>2

\* A step that opens a stream for the new subscription keeps the invariant.
LEMMA OpeningKeeps ==
    ASSUME StreamerInv, NEW mints \in SUBSET Mints, OpenStream(mints),
           subscribedMints' = mints, isStreaming' = TRUE,
           sentSubscriptionUpdate' \in BOOLEAN, reconnectTimer' \in BOOLEAN,
           timeouts' \in Nat, strayTimers' \in Nat, reconnects' \in Nat,
           callbacks' \subseteq callbacks
    PROVE  StreamerInv'
BY OpenStreamKeeps DEF StreamerInv, StreamerTyped, RequestsTheSubscription, NotWedged,
          HeldWhileStreaming

\* updateMints, past its guard.
LEMMA ChangeMintsKeeps ==
    ASSUME StreamerInv, NEW mints \in SUBSET Mints, ChangeMints(mints),
           UNCHANGED <<isStreaming, reconnectTimer, strayTimers, timeouts, reconnects,
                       callbacks>>
    PROVE  StreamerInv'
<1>1. CASE isStreaming /\ streamReference # None
  <2>1. /\ request' = mints /\ subscribedMints' = mints /\ sentSubscriptionUpdate' = TRUE
        /\ UNCHANGED <<streamReference, streamGeneration, up, serves, isReconnecting,
                       pingTimer, hasRecentPing>>
      BY <1>1 DEF ChangeMints
  <2> QED
      BY <1>1, <2>1 DEF StreamerInv, StreamerTyped, RequestsTheSubscription, NotWedged,
          HeldWhileStreaming
<1>2. CASE isStreaming /\ streamReference = None
  <2>1. OpenStream(mints) /\ subscribedMints' = mints /\ UNCHANGED sentSubscriptionUpdate
      BY <1>2 DEF ChangeMints
  <2>2. /\ isStreaming' = TRUE /\ sentSubscriptionUpdate' \in BOOLEAN
        /\ reconnectTimer' \in BOOLEAN /\ timeouts' \in Nat /\ strayTimers' \in Nat
        /\ reconnects' \in Nat /\ callbacks' \subseteq callbacks
      BY <1>2, <2>1 DEF StreamerInv, StreamerTyped
  <2> QED
      BY <2>1, <2>2, OpeningKeeps
<1>3. CASE ~isStreaming
  <2>1. /\ subscribedMints' = mints
        /\ UNCHANGED <<sentSubscriptionUpdate, streamVars, isReconnecting, pingTimer,
                       hasRecentPing>>
      BY <1>3 DEF ChangeMints
  <2> QED
      BY <1>3, <2>1 DEF StreamerInv, StreamerTyped, RequestsTheSubscription, NotWedged,
                        streamVars, HeldWhileStreaming
<1> QED
    BY <1>1, <1>2, <1>3 DEF StreamerInv, StreamerTyped

\* A call whose mints are read carries a set of mints.
LEMMA HeadIsRead ==
    ASSUME ControllerTyped, NEW op, Call(op)
    PROVE  /\ Head(calls).mints \in SUBSET Mints
           /\ calls' \in Seq(Calls) /\ ControllerTyped'
<1>1. Head(calls) \in Calls /\ Tail(calls) \in Seq(Calls)
    BY HeadTailProperties DEF Call, ControllerTyped
<1>2. Head(calls).mints \in SUBSET Mints
    BY <1>1 DEF Calls, Call
<1> QED
    BY <1>1, <1>2 DEF Call, ControllerTyped, controllerVars

LEMMA CallsTakenKeep == Inv /\ CallsTaken => Inv'
<1> SUFFICES ASSUME Inv, CallsTaken PROVE Inv'
    OBVIOUS
<1> DEFINE mints == Head(calls).mints
<1>0. StreamerInv /\ StreamerTyped /\ ControllerTyped
    BY DEF Inv, StreamerInv
<1>1. CASE UpdateMints
  <2>1. mints \in SUBSET Mints /\ ControllerTyped'
      BY <1>0, <1>1, HeadIsRead DEF UpdateMints
  <2>2. UNCHANGED <<isStreaming, reconnectTimer, strayTimers, timeouts, reconnects, callbacks>>
      BY <1>1 DEF UpdateMints, Call
  <2>3. CASE ChangeMints(mints)
      BY <1>0, <2>1, <2>2, <2>3, ChangeMintsKeeps DEF Inv
  <2>4. CASE UNCHANGED <<streamerVars, streamVars, pingTimer>>
      BY <2>1, <2>2, <2>4 DEF Inv, StreamerInv, StreamerTyped, RequestsTheSubscription,
          NotWedged, HeldWhileStreaming, streamerVars, streamVars
  <2> QED
      BY <1>1, <2>3, <2>4 DEF UpdateMints
<1>2. CASE Start
  <2>1. mints \in SUBSET Mints /\ ControllerTyped'
      BY <1>0, <1>2, HeadIsRead DEF Start
  <2>2. UNCHANGED <<reconnectTimer, strayTimers, timeouts, reconnects, callbacks>>
      BY <1>2 DEF Start, Call
  <2>3. ASSUME subscribedMints' = mints, isStreaming' = TRUE, OpenStream(mints),
               UNCHANGED sentSubscriptionUpdate
        PROVE  Inv'
    <3>1. /\ sentSubscriptionUpdate' \in BOOLEAN /\ reconnectTimer' \in BOOLEAN
          /\ timeouts' \in Nat /\ strayTimers' \in Nat /\ reconnects' \in Nat
          /\ callbacks' \subseteq callbacks
        BY <1>0, <2>2, <2>3 DEF StreamerTyped
    <3> QED
        BY <1>0, <2>1, <2>3, <3>1, OpeningKeeps DEF Inv
  <2>4. CASE ChangeMints(mints) /\ UNCHANGED isStreaming
      BY <1>0, <2>1, <2>2, <2>4, ChangeMintsKeeps DEF Inv
  <2>5. CASE UNCHANGED <<streamerVars, streamVars, pingTimer>>
      BY <2>1, <2>2, <2>5 DEF Inv, StreamerInv, StreamerTyped, RequestsTheSubscription,
          NotWedged, HeldWhileStreaming, streamerVars, streamVars
  <2> QED
      BY <1>2, <2>3, <2>4, <2>5 DEF Start
<1>3. CASE EnsureConnected
  <2>1. ControllerTyped'
      BY <1>0, <1>3, HeadIsRead DEF EnsureConnected
  <2>2. /\ UNCHANGED <<subscribedMints, sentSubscriptionUpdate, strayTimers, timeouts,
                       reconnects, callbacks>>
      BY <1>3 DEF EnsureConnected, Call
  <2>3. ASSUME isStreaming' = TRUE, OpenStream(subscribedMints), reconnectTimer' \in BOOLEAN
        PROVE  Inv'
    <3>1. /\ sentSubscriptionUpdate' \in BOOLEAN /\ subscribedMints \in SUBSET Mints
          /\ timeouts' \in Nat /\ strayTimers' \in Nat /\ reconnects' \in Nat
          /\ callbacks' \subseteq callbacks /\ subscribedMints' = subscribedMints
        BY <1>0, <2>2 DEF StreamerTyped
    <3> QED
        BY <1>0, <2>1, <2>3, <3>1, OpeningKeeps DEF Inv
  <2>4. CASE UNCHANGED <<isStreaming, isReconnecting, hasRecentPing, streamVars, pingTimer,
                         reconnectTimer>>
      BY <2>1, <2>2, <2>4 DEF Inv, StreamerInv, StreamerTyped, RequestsTheSubscription,
          NotWedged, HeldWhileStreaming, streamVars
  <2>5. CASE ~isStreaming /\ isStreaming' = TRUE /\ OpenStream(subscribedMints)
             /\ UNCHANGED reconnectTimer
      BY <1>0, <2>3, <2>5 DEF StreamerTyped
  <2>6. CASE isStreaming /\ reconnectTimer' = FALSE /\ OpenStream(subscribedMints)
             /\ UNCHANGED isStreaming
      BY <2>3, <2>6
  <2> QED
      BY <1>3, <2>4, <2>5, <2>6 DEF EnsureConnected
<1>4. CASE Stop
  <2>1. ControllerTyped'
      BY <1>0, <1>4, HeadIsRead DEF Stop
  <2>2. StreamerInv'
      BY <1>0, <1>4 DEF Stop, Call, DropStream, StreamerInv, StreamerTyped,
          RequestsTheSubscription, NotWedged, HeldWhileStreaming
  <2> QED
      BY <2>1, <2>2 DEF Inv
<1> QED
    BY <1>1, <1>2, <1>3, <1>4 DEF CallsTaken

LEMMA TimersKeep == StreamerInv /\ Timers => StreamerInv'
<1> SUFFICES ASSUME StreamerInv, Timers PROVE StreamerInv'
    OBVIOUS
<1>0. StreamerTyped
    BY DEF StreamerInv
<1>1. CASE PingTimerFires
  <2>1. timeouts' \in Nat /\ timeouts' > 0
      BY <1>0, <1>1 DEF PingTimerFires, StreamerTyped
  <2>2. /\ pingTimer' = FALSE
        /\ UNCHANGED <<streamerVars, streamVars, callbacks, reconnectTimer, strayTimers,
                       reconnects>>
      BY <1>1 DEF PingTimerFires
  <2>3. StreamerTyped'
      BY <1>0, <2>1, <2>2 DEF StreamerTyped, streamerVars, streamVars
  <2>4. NotWedged'
      BY <2>1, <2>2 DEF StreamerInv, NotWedged, streamerVars, streamVars
  <2> QED
      BY <2>2, <2>3, <2>4 DEF StreamerInv, RequestsTheSubscription, HeldWhileStreaming,
          streamerVars, streamVars
<1>2. CASE HandleTimeout
    BY <1>0, <1>2, ReconnectKeeps DEF HandleTimeout, StreamerTyped
<1>3. CASE ReconnectTimerFires
  <2>1. reconnects' \in Nat /\ reconnects' > 0
      BY <1>0, <1>3 DEF ReconnectTimerFires, StreamerTyped
  <2>2. strayTimers' \in Nat
      BY <1>0, <1>3 DEF ReconnectTimerFires, StreamerTyped
  <2>3. reconnectTimer' \in BOOLEAN
      BY <1>0, <1>3 DEF ReconnectTimerFires, StreamerTyped
  <2>4. UNCHANGED <<streamerVars, streamVars, callbacks, pingTimer, timeouts>>
      BY <1>3 DEF ReconnectTimerFires
  <2>5. StreamerTyped'
      BY <1>0, <2>1, <2>2, <2>3, <2>4 DEF StreamerTyped, streamerVars, streamVars
  <2>6. NotWedged'
      BY <2>1, <2>4 DEF StreamerInv, NotWedged, streamerVars, streamVars
  <2> QED
      BY <2>4, <2>5, <2>6 DEF StreamerInv, RequestsTheSubscription, HeldWhileStreaming,
          streamerVars, streamVars
<1>4. CASE PerformReconnect
  <2>1. /\ reconnects' \in Nat
        /\ UNCHANGED <<subscribedMints, isStreaming, sentSubscriptionUpdate, timeouts,
                       reconnectTimer, strayTimers, callbacks>>
      BY <1>0, <1>4 DEF PerformReconnect, StreamerTyped
  <2>2. CASE isStreaming /\ OpenStream(subscribedMints)
    <3>1. /\ subscribedMints \in SUBSET Mints /\ subscribedMints' = subscribedMints
          /\ isStreaming' = TRUE /\ sentSubscriptionUpdate' \in BOOLEAN
          /\ reconnectTimer' \in BOOLEAN /\ timeouts' \in Nat /\ strayTimers' \in Nat
          /\ callbacks' \subseteq callbacks
        BY <1>0, <2>1, <2>2 DEF StreamerTyped
    <3> QED
        BY <2>1, <2>2, <3>1, OpeningKeeps
  <2>3. CASE /\ ~isStreaming /\ isReconnecting' = FALSE
             /\ UNCHANGED <<streamVars, pingTimer, hasRecentPing>>
      BY <2>1, <2>3 DEF StreamerInv, StreamerTyped, RequestsTheSubscription,
          NotWedged, HeldWhileStreaming, streamVars
  <2> QED
      BY <1>4, <2>2, <2>3 DEF PerformReconnect
<1>5. CASE PingGrowsOld
    BY <1>5 DEF PingGrowsOld, StreamerInv, StreamerTyped, RequestsTheSubscription,
        NotWedged, HeldWhileStreaming, timers, streamVars
<1> QED
    BY <1>1, <1>2, <1>3, <1>4, <1>5 DEF Timers

LEMMA StreamsKeep == StreamerInv /\ Streams => StreamerInv'
<1> SUFFICES ASSUME StreamerInv, NEW g \in Generations,
                    ServerReads(g) \/ ServerPings(g) \/ Ends(g) \/ Handle(g)
             PROVE  StreamerInv'
    BY DEF Streams
<1>0. StreamerTyped
    BY DEF StreamerInv
<1>1. CASE ServerReads(g)
    BY <1>1 DEF ServerReads, StreamerInv, StreamerTyped, RequestsTheSubscription,
        NotWedged, HeldWhileStreaming, outsideUnchanged, streamerVars, timers
<1>2. CASE ServerPings(g)
  <2>1. callbacks' \subseteq Generations \X Callbacks
      BY <1>0, <1>2 DEF ServerPings, StreamerTyped, Callbacks
  <2> QED
      BY <1>2, <2>1 DEF ServerPings, StreamerInv, StreamerTyped, RequestsTheSubscription,
          NotWedged, HeldWhileStreaming, outsideUnchanged, streamerVars, timers, streamVars
<1>3. CASE Ends(g)
  <2>1. callbacks' \subseteq Generations \X Callbacks
      BY <1>0, <1>3 DEF Ends, StreamerTyped, Callbacks
  <2> QED
      BY <1>3, <2>1 DEF Ends, StreamerInv, StreamerTyped, RequestsTheSubscription,
          NotWedged, HeldWhileStreaming, outsideUnchanged, streamerVars, timers
<1>4. CASE Handle(g)
  <2>0. ASSUME NEW c, Taken(g, c)
        PROVE  /\ callbacks' \subseteq callbacks
               /\ UNCHANGED <<subscribedMints, isStreaming, timeouts, reconnects>>
               /\ timeouts' \in Nat /\ reconnects' \in Nat
      BY <1>0, <2>0 DEF Taken, StreamerTyped
  <2>1. ASSUME NEW c \in Callbacks, HandleStale(g, c) PROVE StreamerInv'
      BY <2>0, <2>1 DEF HandleStale, StreamerInv, StreamerTyped, RequestsTheSubscription,
          NotWedged, HeldWhileStreaming, timers, streamVars
  <2>2. CASE HandlePing(g)
      BY <2>0, <2>2 DEF HandlePing, StreamerInv, StreamerTyped, RequestsTheSubscription,
          NotWedged, HeldWhileStreaming, streamVars
  <2>3. CASE HandleUpdateAbort(g)
    <3>1. Taken(g, "aborted") /\ sentSubscriptionUpdate' = FALSE
        BY <2>3 DEF HandleUpdateAbort
    <3>2. CASE isStreaming /\ ImmediateReconnect
      <4>1. /\ subscribedMints \in SUBSET Mints /\ subscribedMints' = subscribedMints
            /\ isStreaming' = TRUE /\ sentSubscriptionUpdate' \in BOOLEAN
            /\ reconnectTimer' \in BOOLEAN /\ strayTimers' \in Nat
          BY <1>0, <2>0, <3>1, <3>2 DEF StreamerTyped, ImmediateReconnect
      <4> QED
          BY <2>0, <3>1, <3>2, <4>1, OpeningKeeps DEF ImmediateReconnect
    <3>3. CASE ~isStreaming /\ UNCHANGED reconnectUnchanged
        BY <2>0, <3>1, <3>3 DEF reconnectUnchanged, StreamerInv, StreamerTyped,
            RequestsTheSubscription, NotWedged, HeldWhileStreaming, streamVars
    <3> QED
        BY <2>3, <3>2, <3>3 DEF HandleUpdateAbort
  <2>4. CASE HandleEnd(g)
    <3>1. /\ callbacks' \subseteq callbacks /\ timeouts' \in Nat
          /\ UNCHANGED <<subscribedMints, isStreaming, reconnects>>
        BY <2>0, <2>4 DEF HandleEnd
    <3>2. ReconnectOnce /\ sentSubscriptionUpdate' \in BOOLEAN
        BY <2>4 DEF HandleEnd
    <3> QED
        BY <3>1, <3>2, ReconnectKeeps
  <2> QED
      BY <1>4, <2>1, <2>2, <2>3, <2>4 DEF Handle
<1> QED
    BY <1>1, <1>2, <1>3, <1>4

-----------------------------------------------------------------------------
(* The controller's steps.                                                 *)

\* A call more on its way.
LEMMA TellKeepsType ==
    ASSUME ControllerTyped, NEW op \in {"start", "updateMints", "ensureConnected", "stop"},
           NEW mints \in {Late} \cup SUBSET Mints, Tell(op, mints)
    PROVE  calls' \in Seq(Calls)
<1>1. [op |-> op, mints |-> mints] \in Calls
    BY DEF Calls, Carriers
<1> QED
    BY <1>1, AppendProperties DEF Tell, ControllerTyped

LEMMA ControllerKeeps == Inv /\ Controller => Inv'
<1> SUFFICES ASSUME Inv, Controller PROVE Inv'
    OBVIOUS
<1> USE LiveMintsAssumption
<1>0. ControllerTyped /\ StreamerInv
    BY DEF Inv
<1>1. UNCHANGED streamerUnchanged
    BY DEF Controller, UpdateSubscribedMints, EnsureMintSubscribed, TaskReadsMints,
           EnsureStreamConnected, BecomeActive, EnterBackground, PrepareForLogout
<1>2. StreamerInv'
    BY <1>0, <1>1 DEF StreamerInv, StreamerTyped, RequestsTheSubscription, NotWedged,
        HeldWhileStreaming, streamerUnchanged, streamerVars, timers, streamVars
<1>3. ASSUME NEW owned \in SUBSET Mints, UpdateSubscribedMints(owned)
      PROVE  ControllerTyped'
  <2>1. streamedMints' \in SUBSET Mints /\ Usdf \in streamedMints'
      BY <1>0, <1>3 DEF UpdateSubscribedMints, ControllerTyped
  <2>2. calls' \in Seq(Calls)
      BY <1>0, <1>3, <2>1, TellKeepsType DEF UpdateSubscribedMints
  <2> QED
      BY <1>0, <1>3, <2>1, <2>2 DEF UpdateSubscribedMints, ControllerTyped
<1>4. ASSUME NEW mint \in Mints \ {Usdf}, EnsureMintSubscribed(mint)
      PROVE  ControllerTyped'
  <2>1. calls' \in Seq(Calls)
      BY <1>0, <1>4, TellKeepsType DEF EnsureMintSubscribed, ControllerTyped
  <2> QED
      BY <1>0, <1>4, <2>1 DEF EnsureMintSubscribed, ControllerTyped
<1>5. CASE TaskReadsMints
  <2>1. PICK i \in 1..Len(calls) : calls' = [calls EXCEPT ![i].mints = streamedMints]
      BY <1>5 DEF TaskReadsMints
  <2>2. [calls[i] EXCEPT !.mints = streamedMints] \in Calls
    <3>1. calls[i] \in Calls /\ streamedMints \in SUBSET Mints
        BY <1>0, ElementOfSeq DEF ControllerTyped
    <3> QED
        BY <3>1 DEF Calls
  <2>3. calls' \in Seq(Calls)
      BY <1>0, <2>1, <2>2, ExceptSeq DEF ControllerTyped
  <2> QED
      BY <1>0, <1>2, <1>5, <2>3 DEF TaskReadsMints, Inv, ControllerTyped, controllerVars
<1>6. CASE EnsureStreamConnected \/ BecomeActive \/ EnterBackground \/ PrepareForLogout
  <2>1. calls' \in Seq(Calls)
      BY <1>0, <1>6, TellKeepsType
         DEF EnsureStreamConnected, BecomeActive, EnterBackground, PrepareForLogout
  <2> QED
      BY <1>0, <1>2, <1>6, <2>1 DEF EnsureStreamConnected, BecomeActive, EnterBackground,
          PrepareForLogout, Inv, ControllerTyped, controllerVars
<1> QED
    BY <1>2, <1>3, <1>4, <1>5, <1>6 DEF Controller, Inv

LEMMA InvNext == Inv /\ [Next]_vars => Inv'
<1> SUFFICES ASSUME Inv, [Next]_vars PROVE Inv'
    OBVIOUS
<1>1. CASE Controller
    BY <1>1, ControllerKeeps
<1>2. CASE CallsTaken
    BY <1>2, CallsTakenKeep
<1>3. CASE Timers
  <2>1. UNCHANGED <<controllerVars, calls>>
      BY <1>3 DEF Timers, PingTimerFires, HandleTimeout, ReconnectTimerFires,
                  PerformReconnect, PingGrowsOld
  <2> QED
      BY <1>3, <2>1, TimersKeep DEF Inv, ControllerTyped, controllerVars
<1>4. CASE Streams
  <2>1. UNCHANGED <<controllerVars, calls>>
      BY <1>4 DEF Streams, ServerReads, ServerPings, Ends, outsideUnchanged, Handle,
                  HandleStale, HandlePing, HandleUpdateAbort, HandleEnd, Taken
  <2> QED
      BY <1>4, <2>1, StreamsKeep DEF Inv, ControllerTyped, controllerVars
<1>5. CASE UNCHANGED vars
    BY <1>5 DEF vars, controllerVars, streamerVars, timers, streamVars, Inv, ControllerTyped,
        StreamerInv, StreamerTyped, RequestsTheSubscription, NotWedged, HeldWhileStreaming
<1> QED
    BY <1>1, <1>2, <1>3, <1>4, <1>5 DEF Next

\* The inductive invariant holds: LiveMintDataStreamer's state, its streams' and
\* RatesController's, through every call, timer and callback.
THEOREM SpecInv == Spec => []Inv
BY InvInit, InvNext, PTL DEF Spec

\* Type correctness: RatesController's pending mints are among the streamed ones,
\* the core mint is always streamed, and the stream held is the newest.
THEOREM TypeCorrect == Spec => []TypeOK
<1>1. Inv => TypeOK
    BY TypeSplit DEF Inv, StreamerInv
<1> QED
    BY <1>1, SpecInv, PTL

\* LiveMintDataStreamer's last request on the stream held is its subscription.
THEOREM RequestFollows == Spec => []RequestsTheSubscription
<1>1. Inv => RequestsTheSubscription
    BY DEF Inv, StreamerInv
<1> QED
    BY <1>1, SpecInv, PTL

\* LiveMintDataStreamer is never left without a stream or a timer that opens one.
THEOREM NeverWedged == Spec => []NotWedged
<1>1. Inv => NotWedged
    BY DEF Inv, StreamerInv
<1> QED
    BY <1>1, SpecInv, PTL

-----------------------------------------------------------------------------
(* Settled: what the calls on their way will make of the streamer.         *)

\* The last call of s that has one of the ops "last" of is one of "ops" with mints
\* of "read".
LastIs(s, ops, read, last) ==
    \E i \in 1..Len(s) :
        /\ s[i].op \in ops /\ s[i].mints \in read
        /\ \A j \in 1..Len(s) : j > i => s[j].op \notin last

NoneOf(s, ops) == \A i \in 1..Len(s) : s[i].op \notin ops

AnyMints == {Late} \cup SUBSET Mints
Starters == {"start", "ensureConnected"}

\* The last call that carries mints will leave the controller's, or there is none and
\* the streamer has them.
MintsFollow ==
    \/ LastIs(calls, Carriers, {Late, streamedMints}, Carriers)
    \/ NoneOf(calls, Carriers) /\ subscribedMints = streamedMints

\* The same of starting in front, and of stopping after a logout that nothing revived.
StartFollows ==
    phase = "active" =>
        \/ LastIs(calls, Starters, AnyMints, {"stop"})
        \/ NoneOf(calls, {"stop"}) /\ isStreaming

StopFollows ==
    phase = "loggedOut" /\ ~revived =>
        \/ LastIs(calls, {"stop"}, AnyMints, Starters)
        \/ NoneOf(calls, Starters) /\ ~isStreaming

\* The streamer's first call starts it, and with the core mint.
CoreMintFirst ==
    /\ \A i \in 1..Len(calls) :
           calls[i].op \in Carriers => calls[i].mints = Late \/ Usdf \in calls[i].mints
    /\ Usdf \in subscribedMints \/ (calls # <<>> /\ calls[1].op = "start")

FollowInv == MintsFollow /\ StartFollows /\ StopFollows /\ CoreMintFirst

\* A call more at the end.
LEMMA AppendFollows ==
    ASSUME NEW s \in Seq(Calls), NEW c \in Calls, NEW ops, NEW read, NEW last
    PROVE  LET t == Append(s, c)
           IN  /\ c.op \in ops /\ c.mints \in read => LastIs(t, ops, read, last)
               /\ c.op \notin last /\ LastIs(s, ops, read, last) => LastIs(t, ops, read, last)
               /\ c.op \notin last /\ NoneOf(s, last) => NoneOf(t, last)
<1> DEFINE t == Append(s, c)
<1>1. /\ Len(t) = Len(s) + 1 /\ Len(s) \in Nat
      /\ \A i \in 1..Len(s) : t[i] = s[i]
      /\ t[Len(s) + 1] = c
    BY AppendProperties
<1> HIDE DEF t
<1>2. ASSUME c.op \in ops, c.mints \in read PROVE LastIs(t, ops, read, last)
  <2>1. /\ Len(t) \in 1..Len(t)
        /\ \A j \in 1..Len(t) : ~(j > Len(t))
      BY <1>1
  <2> QED
      BY <1>1, <1>2, <2>1 DEF LastIs
<1>3. ASSUME c.op \notin last, LastIs(s, ops, read, last)
      PROVE  LastIs(t, ops, read, last)
  <2>1. PICK i \in 1..Len(s) : /\ s[i].op \in ops /\ s[i].mints \in read
                               /\ \A j \in 1..Len(s) : j > i => s[j].op \notin last
      BY <1>3 DEF LastIs
  <2>2. i \in 1..Len(t) /\ t[i] = s[i]
      BY <1>1
  <2>3. ASSUME NEW j \in 1..Len(t), j > i PROVE t[j].op \notin last
    <3>1. CASE j = Len(s) + 1
        BY <1>1, <1>3, <3>1
    <3>2. CASE j # Len(s) + 1
      <4>1. j \in 1..Len(s)
          BY <1>1, <3>2
      <4> QED
          BY <1>1, <2>1, <2>3, <4>1
    <3> QED
        BY <3>1, <3>2
  <2> QED
      BY <2>1, <2>2, <2>3 DEF LastIs
<1>4. ASSUME c.op \notin last, NoneOf(s, last) PROVE NoneOf(t, last)
  <2> SUFFICES ASSUME NEW j \in 1..Len(t) PROVE t[j].op \notin last
      BY DEF NoneOf
  <2>1. CASE j = Len(s) + 1
      BY <1>1, <1>4, <2>1
  <2>2. CASE j # Len(s) + 1
    <3>1. j \in 1..Len(s)
        BY <1>1, <2>2
    <3> QED
        BY <1>1, <1>4, <3>1 DEF NoneOf
  <2> QED
      BY <2>1, <2>2
<1> QED
    BY <1>2, <1>3, <1>4 DEF t

\* The oldest call is taken.
LEMMA TailFollows ==
    ASSUME NEW s \in Seq(Calls), s # <<>>, NEW ops, NEW read, NEW last
    PROVE  /\ LastIs(s, ops, read, last) =>
                  \/ LastIs(Tail(s), ops, read, last)
                  \/ /\ Head(s).op \in ops /\ Head(s).mints \in read
                     /\ NoneOf(Tail(s), last)
           /\ NoneOf(s, last) => NoneOf(Tail(s), last) /\ Head(s).op \notin last
<1> DEFINE t == Tail(s)
<1>1. /\ Len(t) = Len(s) - 1 /\ Len(s) \in Nat \ {0}
      /\ \A i \in 1..Len(t) : t[i] = s[i + 1]
      /\ Head(s) = s[1]
    BY HeadTailProperties
<1> HIDE DEF t
<1>2. ASSUME LastIs(s, ops, read, last)
      PROVE  \/ LastIs(t, ops, read, last)
             \/ Head(s).op \in ops /\ Head(s).mints \in read /\ NoneOf(t, last)
  <2>1. PICK i \in 1..Len(s) : /\ s[i].op \in ops /\ s[i].mints \in read
                               /\ \A j \in 1..Len(s) : j > i => s[j].op \notin last
      BY <1>2 DEF LastIs
  <2>2. ASSUME NEW j \in 1..Len(t), j + 1 > i PROVE t[j].op \notin last
    <3>1. j + 1 \in 1..Len(s) /\ t[j] = s[j + 1]
        BY <1>1
    <3> QED
        BY <2>1, <2>2, <3>1
  <2>3. CASE i = 1
    <3>1. \A j \in 1..Len(t) : j + 1 > i
        BY <1>1, <2>3
    <3> QED
        BY <1>1, <2>1, <2>2, <2>3, <3>1 DEF NoneOf
  <2>4. CASE i # 1
    <3>1. /\ i - 1 \in 1..Len(t) /\ t[i - 1] = s[i]
          /\ \A j \in 1..Len(t) : j > i - 1 => j + 1 > i
      <4>1. i - 1 \in 1..Len(t) /\ (i - 1) + 1 = i
          BY <1>1, <2>4
      <4>2. t[i - 1] = s[i]
          BY <1>1, <4>1
      <4> QED
          BY <1>1, <4>1, <4>2
    <3> QED
        BY <2>1, <2>2, <3>1 DEF LastIs
  <2> QED
      BY <2>3, <2>4
<1>3. ASSUME NoneOf(s, last) PROVE NoneOf(t, last) /\ Head(s).op \notin last
  <2>1. 1 \in 1..Len(s) /\ \A j \in 1..Len(t) : j + 1 \in 1..Len(s)
      BY <1>1
  <2> QED
      BY <1>1, <1>3, <2>1 DEF NoneOf
<1> QED
    BY <1>2, <1>3 DEF t

LEMMA FollowInit == Init => FollowInv
<1> SUFFICES ASSUME Init PROVE FollowInv
    OBVIOUS
<1> DEFINE first == [op |-> "start", mints |-> Late]
<1>1. calls = <<first>> /\ Len(calls) = 1 /\ calls[1] = first
    BY DEF Init
<1>2. first.op = "start" /\ first.mints = Late
    OBVIOUS
<1> HIDE DEF first
<1>3. ASSUME NEW ops, NEW read, NEW last, "start" \in ops, Late \in read
      PROVE  LastIs(calls, ops, read, last)
    BY <1>1, <1>2, <1>3 DEF LastIs
<1>4. MintsFollow
  <2>1. "start" \in Carriers /\ Late \in {Late, streamedMints}
      BY DEF Carriers
  <2> QED
      BY <1>3, <2>1 DEF MintsFollow
<1>5. StartFollows
  <2>1. "start" \in Starters /\ Late \in AnyMints
      BY DEF Starters, AnyMints
  <2> QED
      BY <1>3, <2>1 DEF StartFollows
<1>6. StopFollows
    BY DEF Init, StopFollows
<1>7. CoreMintFirst
    BY <1>1, <1>2 DEF CoreMintFirst
<1> QED
    BY <1>4, <1>5, <1>6, <1>7 DEF FollowInv

\* A step that tells the streamer nothing and changes nothing the calls are about.
LEMMA FollowUntouched ==
    ASSUME FollowInv, UNCHANGED <<phase, revived, streamedMints, calls, subscribedMints, isStreaming>>
    PROVE  FollowInv'
BY DEF FollowInv, MintsFollow, StartFollows, StopFollows, CoreMintFirst

\* What a call of the streamer leaves of the calls and of the mints.
LEMMA CallFollows ==
    ASSUME Inv, FollowInv, NEW op, Call(op)
    PROVE  /\ Head(calls).op \in Carriers => Usdf \in Head(calls).mints
           /\ CoreMintFirst' <=>
                  Usdf \in subscribedMints' \/ (calls' # <<>> /\ calls'[1].op = "start")
           /\ op # "start" => Usdf \in subscribedMints
<1>1. /\ calls \in Seq(Calls) /\ calls # <<>> /\ calls' = Tail(calls)
      /\ Head(calls).op = op /\ Head(calls).mints # Late
    BY DEF Call, Inv, ControllerTyped
<1>2. /\ Head(calls) = calls[1] /\ 1 \in 1..Len(calls)
      /\ \A i \in 1..Len(calls') : i + 1 \in 1..Len(calls) /\ calls'[i] = calls[i + 1]
  <2>1. /\ Len(calls') = Len(calls) - 1 /\ Len(calls) \in Nat \ {0}
        /\ \A i \in 1..Len(calls') : calls'[i] = calls[i + 1]
      BY <1>1, HeadTailProperties
  <2> QED
      BY <1>1, <2>1
<1>3. Head(calls).op \in Carriers => Usdf \in Head(calls).mints
    BY <1>1, <1>2 DEF FollowInv, CoreMintFirst
<1>4. \A i \in 1..Len(calls') :
          calls'[i].op \in Carriers => calls'[i].mints = Late \/ Usdf \in calls'[i].mints
    BY <1>2 DEF FollowInv, CoreMintFirst
<1>5. op # "start" => Usdf \in subscribedMints
    BY <1>1, <1>2 DEF FollowInv, CoreMintFirst
<1> QED
    BY <1>3, <1>4, <1>5 DEF CoreMintFirst

LEMMA CallsTakenFollow == Inv /\ FollowInv /\ CallsTaken => FollowInv'
<1> SUFFICES ASSUME Inv, FollowInv, CallsTaken PROVE FollowInv'
    OBVIOUS
<1> DEFINE head == Head(calls)
<1>1. PICK op \in {"start", "updateMints", "ensureConnected", "stop"} :
          /\ Call(op)
          /\ op = "start" => Start
          /\ op = "updateMints" => UpdateMints
          /\ op = "ensureConnected" => EnsureConnected
          /\ op = "stop" => Stop
    BY DEF CallsTaken, Start, UpdateMints, EnsureConnected, Stop
<1>2. /\ calls \in Seq(Calls) /\ calls # <<>> /\ calls' = Tail(calls)
      /\ head.op = op /\ head.mints # Late /\ UNCHANGED controllerVars
    BY <1>1 DEF Call, Inv, ControllerTyped
<1>3. UNCHANGED <<phase, revived, streamedMints>>
    BY <1>2 DEF controllerVars
<1>4. /\ op \in Carriers => subscribedMints' = head.mints
      /\ op \notin Carriers => subscribedMints' = subscribedMints
  <2>1. CASE op = "start"
      BY <1>1, <2>1 DEF Start, ChangeMints, streamerVars, Carriers
  <2>2. CASE op = "updateMints"
      BY <1>1, <2>2 DEF UpdateMints, ChangeMints, streamerVars, Carriers
  <2>3. CASE op = "ensureConnected"
      BY <1>1, <2>3 DEF EnsureConnected, Carriers
  <2>4. CASE op = "stop"
      BY <1>1, <2>4 DEF Stop, Carriers
  <2> QED
      BY <2>1, <2>2, <2>3, <2>4
<1>5. CoreMintFirst'
  <2>1. CASE op \in Carriers
      BY <1>1, <1>2, <1>4, <2>1, CallFollows
  <2>2. CASE op \notin Carriers
      BY <1>1, <1>4, <2>2, CallFollows DEF Carriers
  <2> QED
      BY <2>1, <2>2
<1>6. /\ op \in Starters => isStreaming'
      /\ op = "updateMints" => isStreaming' = isStreaming
      /\ op = "stop" => ~isStreaming'
  <2>1. CASE op = "start"
      BY <1>1, <2>1 DEF Start, streamerVars
  <2>2. CASE op = "updateMints"
      BY <1>1, <2>2 DEF UpdateMints, Starters
  <2>3. CASE op = "ensureConnected"
    <3>1. subscribedMints # {}
        BY <1>1, <2>3, CallFollows
    <3> QED
        BY <1>1, <2>3, <3>1 DEF EnsureConnected
  <2>4. CASE op = "stop"
      BY <1>1, <2>4 DEF Stop, Starters
  <2> QED
      BY <2>1, <2>2, <2>3, <2>4
<1>7. MintsFollow'
  <2> DEFINE read == {Late, streamedMints}
  <2>1. CASE LastIs(calls, Carriers, read, Carriers)
    <3>1. CASE LastIs(calls', Carriers, read, Carriers)
        BY <1>3, <3>1 DEF MintsFollow
    <3>2. CASE head.op \in Carriers /\ head.mints \in read /\ NoneOf(calls', Carriers)
        BY <1>2, <1>3, <1>4, <3>2 DEF MintsFollow
    <3> QED
        BY <1>2, <2>1, <3>1, <3>2, TailFollows
  <2>2. CASE NoneOf(calls, Carriers) /\ subscribedMints = streamedMints
    <3>1. NoneOf(calls', Carriers) /\ op \notin Carriers
        BY <1>2, <2>2, TailFollows
    <3> QED
        BY <1>3, <1>4, <2>2, <3>1 DEF MintsFollow
  <2> QED
      BY <2>1, <2>2 DEF FollowInv, MintsFollow
<1>8. StartFollows'
  <2> SUFFICES ASSUME phase = "active"
               PROVE  \/ LastIs(calls', Starters, AnyMints, {"stop"})
                      \/ NoneOf(calls', {"stop"}) /\ isStreaming'
      BY <1>3 DEF StartFollows
  <2>1. CASE LastIs(calls, Starters, AnyMints, {"stop"})
      BY <1>2, <1>6, <2>1, TailFollows
  <2>2. CASE NoneOf(calls, {"stop"}) /\ isStreaming
    <3>1. NoneOf(calls', {"stop"}) /\ op \notin {"stop"}
        BY <1>2, <2>2, TailFollows
    <3> QED
        BY <1>6, <2>2, <3>1 DEF Starters
  <2> QED
      BY <2>1, <2>2 DEF FollowInv, StartFollows
<1>9. StopFollows'
  <2> SUFFICES ASSUME phase = "loggedOut", ~revived
               PROVE  \/ LastIs(calls', {"stop"}, AnyMints, Starters)
                      \/ NoneOf(calls', Starters) /\ ~isStreaming'
      BY <1>3 DEF StopFollows
  <2>1. CASE LastIs(calls, {"stop"}, AnyMints, Starters)
      BY <1>2, <1>6, <2>1, TailFollows
  <2>2. CASE NoneOf(calls, Starters) /\ ~isStreaming
    <3>1. NoneOf(calls', Starters) /\ op \notin Starters
        BY <1>2, <2>2, TailFollows
    <3> QED
        BY <1>6, <2>2, <3>1 DEF Starters
  <2> QED
      BY <2>1, <2>2 DEF FollowInv, StopFollows
<1> QED
    BY <1>5, <1>7, <1>8, <1>9 DEF FollowInv

\* A call of the controller's: what it leaves of the calls.
LEMMA TellFollows ==
    ASSUME ControllerTyped, CoreMintFirst, UNCHANGED <<subscribedMints, isStreaming>>,
           NEW op \in {"start", "updateMints", "ensureConnected", "stop"},
           NEW mints \in AnyMints, Tell(op, mints),
           op \in Carriers => mints = Late \/ Usdf \in mints
    PROVE  /\ CoreMintFirst'
           /\ \A ops, read, last :
                  /\ op \in ops /\ mints \in read => LastIs(calls', ops, read, last)
                  /\ op \notin last /\ LastIs(calls, ops, read, last)
                         => LastIs(calls', ops, read, last)
                  /\ op \notin last /\ NoneOf(calls, last) => NoneOf(calls', last)
<1> DEFINE c == [op |-> op, mints |-> mints]
<1>1. c \in Calls /\ c.op = op /\ c.mints = mints
    BY DEF Calls, Carriers, AnyMints
<1>2. calls' = Append(calls, c) /\ calls \in Seq(Calls)
    BY DEF Tell, ControllerTyped
<1> HIDE DEF c
<1>3. /\ Len(calls') = Len(calls) + 1 /\ Len(calls) \in Nat
      /\ \A i \in 1..Len(calls) : calls'[i] = calls[i]
      /\ calls'[Len(calls) + 1] = c /\ calls' # <<>>
    BY <1>1, <1>2, AppendProperties
<1>4. CoreMintFirst'
  <2>1. ASSUME NEW i \in 1..Len(calls'), calls'[i].op \in Carriers
        PROVE  calls'[i].mints = Late \/ Usdf \in calls'[i].mints
    <3>1. CASE i = Len(calls) + 1
        BY <1>1, <1>3, <2>1, <3>1
    <3>2. CASE i \in 1..Len(calls)
        BY <1>3, <2>1, <3>2 DEF CoreMintFirst
    <3> QED
        BY <1>3, <3>1, <3>2
  <2>2. Usdf \in subscribedMints' \/ calls'[1].op = "start"
    <3>1. CASE calls # <<>>
      <4>1. 1 \in 1..Len(calls)
          BY <1>2, <1>3, <3>1, EmptySeq
      <4> QED
          BY <1>3, <4>1 DEF CoreMintFirst
    <3>2. CASE calls = <<>>
        BY <3>2 DEF CoreMintFirst
    <3> QED
        BY <3>1, <3>2
  <2> QED
      BY <1>3, <2>1, <2>2 DEF CoreMintFirst
<1> QED
    BY <1>1, <1>2, <1>4, AppendFollows

LEMMA ControllerFollows == Inv /\ FollowInv /\ Controller => FollowInv'
<1> SUFFICES ASSUME Inv, FollowInv, Controller PROVE FollowInv'
    OBVIOUS
<1> USE LiveMintsAssumption
<1>1. ControllerTyped /\ CoreMintFirst /\ StartFollows /\ StopFollows /\ MintsFollow
    BY DEF Inv, FollowInv
<1>2. UNCHANGED <<subscribedMints, isStreaming>>
    BY DEF Controller, UpdateSubscribedMints, EnsureMintSubscribed, TaskReadsMints,
           EnsureStreamConnected, BecomeActive, EnterBackground, PrepareForLogout,
           streamerUnchanged, streamerVars
<1>3. ASSUME NEW mints \in {Late, streamedMints'}, Tell("updateMints", mints),
             mints \in AnyMints, mints = Late \/ Usdf \in mints,
             UNCHANGED <<phase, revived>>
      PROVE  FollowInv'
  <2>1. "updateMints" \in Carriers /\ "updateMints" \notin Starters \cup {"stop"}
      BY DEF Carriers, Starters
  <2>2. MintsFollow'
      BY <1>1, <1>2, <1>3, <2>1, TellFollows DEF MintsFollow
  <2>3. StartFollows' /\ StopFollows'
      BY <1>1, <1>2, <1>3, <2>1, TellFollows DEF StartFollows, StopFollows
  <2>4. CoreMintFirst'
      BY <1>1, <1>2, <1>3, TellFollows
  <2> QED
      BY <2>2, <2>3, <2>4 DEF FollowInv
<1>4. ASSUME Tell("ensureConnected", {}), phase' # "loggedOut" \/ revived',
             UNCHANGED streamedMints
      PROVE  FollowInv'
  <2>1. /\ "ensureConnected" \notin Carriers /\ "ensureConnected" \in Starters
        /\ {} \in AnyMints
      BY DEF Carriers, Starters, AnyMints
  <2>2. MintsFollow'
      BY <1>1, <1>2, <1>4, <2>1, TellFollows DEF MintsFollow
  <2>3. StartFollows' /\ StopFollows'
      BY <1>1, <1>2, <1>4, <2>1, TellFollows DEF StartFollows, StopFollows
  <2>4. CoreMintFirst'
      BY <1>1, <1>2, <1>4, <2>1, TellFollows
  <2> QED
      BY <2>2, <2>3, <2>4 DEF FollowInv
<1>5. ASSUME Tell("stop", {}), phase' # "active", UNCHANGED streamedMints
      PROVE  FollowInv'
  <2>1. "stop" \notin Carriers \cup Starters /\ {} \in AnyMints
      BY DEF Carriers, Starters, AnyMints
  <2>2. MintsFollow'
      BY <1>1, <1>2, <1>5, <2>1, TellFollows DEF MintsFollow
  <2>3. StartFollows' /\ StopFollows'
      BY <1>1, <1>2, <1>5, <2>1, TellFollows DEF StartFollows, StopFollows
  <2>4. CoreMintFirst'
      BY <1>1, <1>2, <1>5, <2>1, TellFollows
  <2> QED
      BY <2>2, <2>3, <2>4 DEF FollowInv
<1>6. ASSUME NEW owned \in SUBSET Mints, UpdateSubscribedMints(owned)
      PROVE  FollowInv'
  <2>1. streamedMints' \in SUBSET Mints /\ Usdf \in streamedMints'
      BY <1>1, <1>6 DEF UpdateSubscribedMints, ControllerTyped
  <2> QED
      BY <1>3, <1>6, <2>1 DEF UpdateSubscribedMints, AnyMints
<1>7. ASSUME NEW mint \in Mints \ {Usdf}, EnsureMintSubscribed(mint)
      PROVE  FollowInv'
  <2>1. CASE mint \in streamedMints
    <3>1. UNCHANGED <<phase, revived, streamedMints, calls>>
        BY <1>7, <2>1 DEF EnsureMintSubscribed
    <3> QED
        BY <1>2, <3>1, FollowUntouched
  <2>2. CASE mint \notin streamedMints
      BY <1>3, <1>7, <2>2 DEF EnsureMintSubscribed, AnyMints
  <2> QED
      BY <2>1, <2>2
<1>8. CASE TaskReadsMints
  <2>1. PICK i \in 1..Len(calls) : /\ calls[i].mints = Late
                                   /\ calls' = [calls EXCEPT ![i].mints = streamedMints]
      BY <1>8 DEF TaskReadsMints
  <2>2. UNCHANGED <<phase, revived, streamedMints>>
      BY <1>8 DEF TaskReadsMints, controllerVars
  <2>3. calls \in Seq(Calls) /\ streamedMints \in SUBSET Mints /\ Usdf \in streamedMints
      BY <1>1 DEF ControllerTyped
  <2>4. calls[i] \in Calls
      BY <2>3, ElementOfSeq
  <2> DEFINE read == [calls[i] EXCEPT !.mints = streamedMints]
  <2>5. read \in Calls /\ read.op = calls[i].op /\ read.mints = streamedMints
      BY <2>3, <2>4 DEF Calls
  <2>6. calls' = [calls EXCEPT ![i] = read]
      BY <2>1
  <2> HIDE DEF read
  <2>7. /\ Len(calls') = Len(calls)
        /\ \A j \in 1..Len(calls) : calls'[j] = IF j = i THEN read ELSE calls[j]
      BY <2>3, <2>5, <2>6, ExceptSeq
  <2>8. \A j \in 1..Len(calls) :
            /\ calls'[j].op = calls[j].op
            /\ calls'[j].mints = streamedMints \/ calls'[j].mints = calls[j].mints
      BY <2>5, <2>7
  <2>9. /\ \A ops : NoneOf(calls, ops) => NoneOf(calls', ops)
        /\ \A ops, mints, last :
               streamedMints \in mints /\ LastIs(calls, ops, mints, last)
                   => LastIs(calls', ops, mints, last)
    <3>1. ASSUME NEW ops, NoneOf(calls, ops) PROVE NoneOf(calls', ops)
        BY <2>7, <2>8, <3>1 DEF NoneOf
    <3>2. ASSUME NEW ops, NEW mints, NEW last, streamedMints \in mints,
                 LastIs(calls, ops, mints, last)
          PROVE  LastIs(calls', ops, mints, last)
      <4>1. PICK k \in 1..Len(calls) :
                /\ calls[k].op \in ops /\ calls[k].mints \in mints
                /\ \A j \in 1..Len(calls) : j > k => calls[j].op \notin last
          BY <3>2 DEF LastIs
      <4>2. /\ calls'[k].op \in ops /\ calls'[k].mints \in mints
            /\ \A j \in 1..Len(calls') : j > k => calls'[j].op \notin last
          BY <2>7, <2>8, <3>2, <4>1
      <4> QED
          BY <2>7, <4>1, <4>2 DEF LastIs
    <3> QED
        BY <3>1, <3>2
  <2>10. MintsFollow'
      BY <1>1, <1>2, <2>2, <2>9 DEF MintsFollow
  <2>11. StartFollows' /\ StopFollows'
      BY <1>1, <1>2, <2>2, <2>3, <2>9 DEF StartFollows, StopFollows, AnyMints
  <2>12. CoreMintFirst'
    <3>1. \A j \in 1..Len(calls') : calls'[j].op \in Carriers =>
              calls'[j].mints = Late \/ Usdf \in calls'[j].mints
        BY <1>1, <2>3, <2>7, <2>8 DEF CoreMintFirst
    <3>2. 1 \in 1..Len(calls) /\ calls' # <<>> /\ calls # <<>>
      <4>1. Len(calls) \in Nat /\ i \in 1..Len(calls)
          BY <2>3, LenProperties
      <4>2. 1 \in 1..Len(calls)
          BY <4>1
      <4> QED
          BY <2>3, <2>5, <2>6, <2>7, <4>2, ExceptSeq, EmptySeq
    <3>3. calls'[1].op = calls[1].op
        BY <2>8, <3>2
    <3> QED
        BY <1>1, <1>2, <3>1, <3>2, <3>3 DEF CoreMintFirst
  <2> QED
      BY <2>10, <2>11, <2>12 DEF FollowInv
<1>9. CASE EnsureStreamConnected \/ BecomeActive
    BY <1>4, <1>9 DEF EnsureStreamConnected, BecomeActive, controllerVars
<1>10. CASE EnterBackground \/ PrepareForLogout
    BY <1>5, <1>10 DEF EnterBackground, PrepareForLogout
<1> QED
    BY <1>6, <1>7, <1>8, <1>9, <1>10 DEF Controller

LEMMA FollowNext == Inv /\ FollowInv /\ [Next]_vars => FollowInv'
<1> SUFFICES ASSUME Inv, FollowInv, [Next]_vars PROVE FollowInv'
    OBVIOUS
<1>1. CASE Controller
    BY <1>1, ControllerFollows
<1>2. CASE CallsTaken
    BY <1>2, CallsTakenFollow
<1>3. CASE Timers \/ Streams \/ UNCHANGED vars
  <2>1. CASE Timers
      BY <2>1, FollowUntouched
         DEF Timers, PingTimerFires, HandleTimeout, ReconnectTimerFires, PerformReconnect,
             PingGrowsOld, controllerVars, streamerVars
  <2>2. CASE Streams
      BY <2>2, FollowUntouched
         DEF Streams, ServerReads, ServerPings, Ends, outsideUnchanged, Handle, HandleStale,
             HandlePing, HandleUpdateAbort, HandleEnd, Taken, controllerVars, streamerVars
  <2>3. CASE UNCHANGED vars
      BY <2>3, FollowUntouched DEF vars, controllerVars, streamerVars
  <2> QED
      BY <1>3, <2>1, <2>2, <2>3
<1> QED
    BY <1>1, <1>2, <1>3 DEF Next

\* Once RatesController's tasks are through, the streamer has its mints, streams if
\* the app is in front and, after a logout, only if something asked for it since.
THEOREM Settles == Spec => []SettledFollowsApp
<1>1. FollowInv => SettledFollowsApp
  <2> SUFFICES ASSUME FollowInv, calls = <<>>
               PROVE  /\ subscribedMints = streamedMints
                      /\ phase = "active" => isStreaming
                      /\ phase = "loggedOut" /\ isStreaming => revived
      BY DEF SettledFollowsApp
  <2>1. \A ops, read, last : ~LastIs(calls, ops, read, last)
      BY DEF LastIs
  <2> QED
      BY <2>1 DEF FollowInv, MintsFollow, StartFollows, StopFollows
<1> QED
    BY <1>1, SpecInv, FollowInit, FollowNext, PTL DEF Spec
=============================================================================
