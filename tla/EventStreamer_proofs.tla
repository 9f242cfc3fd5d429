------------------------ MODULE EventStreamer_proofs ------------------------
(***************************************************************************)
(* Whatever the number of streams, late timers and late callbacks, the     *)
(* streamer is never wedged, holds the only stream that is up, keeps it    *)
(* for its owner as StreamKeeper has it, and loses it to no late callback. *)
(***************************************************************************)
EXTENDS SessionStreams, TLAPS

ConnectionType == [Generations -> {"none", "up", "cancelled", "over"}]

\* A stream that is up was opened for the present owner, and there is one.
UpForOwner ==
    \A g \in Generations : connection[g] = "up" => openedFor[g] = owner /\ isStreaming

\* The inductive invariant.
Inv == TypeOK /\ NotWedged /\ OneStream /\ UpForOwner

LEMMA InvInit == Init => Inv
<1> SUFFICES ASSUME Init PROVE Inv
    OBVIOUS
<1>1. TypeOK
  <2>1. None \in 0..MaxOpens
      BY EventStreamerAssumption DEF None
  <2> QED
      BY <2>1, EventStreamerAssumption, OwnersAssumption DEF Init, TypeOK, None
<1>2. NotWedged /\ OneStream /\ UpForOwner
    BY DEF Init, NotWedged, OneStream, UpForOwner
<1> QED
    BY <1>1, <1>2 DEF Inv

\* Cancelling the stream held keeps the type, and with OneStream no stream is up.
LEMMA NoneUpAfterCancel ==
    ASSUME TypeOK
    PROVE  /\ Cancelled \in ConnectionType
           /\ OneStream => \A g \in Generations : Cancelled[g] # "up"
BY DEF TypeOK, OneStream, Cancelled, ConnectionType

\* openStream leaves the new stream up, and no other.
LEMMA OpenStreamOpensOne ==
    ASSUME TypeOK, OneStream, NEW o \in Owners, OpenStream(o)
    PROVE  /\ streamGeneration' \in Generations
           /\ streamGeneration' \in 0..MaxOpens
           /\ streamReference' = streamGeneration'
           /\ streamReference' # None
           /\ connection' \in ConnectionType
           /\ openedFor' \in [Generations -> Owners \cup {NoOwner}]
           /\ connection'[streamReference'] = "up"
           /\ openedFor'[streamReference'] = o
           /\ \A g \in Generations : connection'[g] = "up" => g = streamReference'
           /\ isReconnecting' = FALSE /\ pingTimer' = TRUE /\ hasRecentPing' = TRUE
<1>1. /\ streamGeneration' \in Generations /\ streamGeneration' # None
      /\ streamGeneration' \in 0..MaxOpens
    BY EventStreamerAssumption DEF OpenStream, TypeOK, Generations, None
<1>2. /\ Cancelled \in ConnectionType
      /\ \A g \in Generations : Cancelled[g] # "up"
    BY NoneUpAfterCancel
<1>3. /\ connection' = [Cancelled EXCEPT ![streamGeneration'] = "up"]
      /\ openedFor' = [openedFor EXCEPT ![streamGeneration'] = o]
      /\ streamReference' = streamGeneration'
      /\ isReconnecting' = FALSE /\ pingTimer' = TRUE /\ hasRecentPing' = TRUE
    BY DEF OpenStream
<1>4. openedFor \in [Generations -> Owners \cup {NoOwner}]
    BY DEF TypeOK
<1> QED
    BY <1>1, <1>2, <1>3, <1>4 DEF ConnectionType

\* reconnect keeps what the invariant says of streams and timers.
LEMMA ReconnectKeeps ==
    ASSUME Inv, Reconnect, UNCHANGED <<isStreaming, reconnects>>
    PROVE  /\ connection' \in ConnectionType
           /\ streamReference' \in {None, streamGeneration}
           /\ isReconnecting' \in BOOLEAN /\ pingTimer' \in BOOLEAN
           /\ hasRecentPing' \in BOOLEAN /\ isConnectionLive' \in BOOLEAN
           /\ reconnectTimer' \in BOOLEAN /\ strayTimers' \in Nat
           /\ toldLive' \in 0..MaxOpens
           /\ isStreaming' => isReconnecting'
                              /\ (reconnectTimer' \/ strayTimers' > 0 \/ reconnects' > 0)
           /\ \A g \in Generations : connection'[g] = "up" =>
                  connection[g] = "up" /\ g = streamReference'
<1>1. CASE isStreaming /\ ~isReconnecting
  <2>1. /\ Cancelled \in ConnectionType
        /\ \A g \in Generations : Cancelled[g] # "up"
      BY NoneUpAfterCancel DEF Inv
  <2>2. /\ isReconnecting' = TRUE /\ pingTimer' = FALSE
        /\ hasRecentPing' = FALSE /\ reconnectTimer' = TRUE
        /\ isConnectionLive' = FALSE /\ toldLive' = toldLive
        /\ connection' = Cancelled /\ streamReference' = None
      BY <1>1 DEF Reconnect, ScheduleReconnect, DropStream, ReportConnection
  <2>3. strayTimers' \in Nat
      BY <1>1 DEF Reconnect, ScheduleReconnect, Inv, TypeOK
  <2> QED
      BY <2>1, <2>2, <2>3 DEF Inv, TypeOK
<1>2. CASE ~(isStreaming /\ ~isReconnecting)
    BY <1>2 DEF Reconnect, Inv, TypeOK, NotWedged, OneStream, ConnectionType
<1> QED
    BY <1>1, <1>2

\* stop leaves no stream up.
LEMMA StopKeeps ==
    ASSUME Inv, StopStreaming
    PROVE  /\ connection' \in ConnectionType
           /\ \A g \in Generations : connection'[g] # "up"
           /\ isStreaming' = FALSE /\ owner' = NoOwner
           /\ isReconnecting' = FALSE /\ pingTimer' = FALSE
           /\ hasRecentPing' = FALSE /\ isConnectionLive' = FALSE
           /\ reconnectTimer' = FALSE /\ streamReference' = None
           /\ toldLive' \in 0..MaxOpens
<1>1. /\ Cancelled \in ConnectionType
      /\ \A g \in Generations : Cancelled[g] # "up"
    BY NoneUpAfterCancel DEF Inv
<1> QED
    BY <1>1 DEF StopStreaming, DropStream, ReportConnection, Inv, TypeOK

LEMMA CallbacksKeepType ==
    ASSUME TypeOK, NEW g \in Generations, NEW c \in Callbacks, Taken(g, c)
    PROVE  callbacks' \in [Generations -> SUBSET Callbacks]
BY DEF Taken, TypeOK

LEMMA InvNext == Inv /\ [Next]_vars => Inv'
<1> SUFFICES ASSUME Inv, [Next]_vars PROVE Inv'
    OBVIOUS
<1> USE EventStreamerAssumption, OwnersAssumption DEF ConnectionType
<1>1. ASSUME NEW o \in Owners, Subscribe(o) PROVE Inv'
  <2>0. None \in 0..MaxOpens
      BY DEF None
  <2>1. CASE isStreaming
    <3>1. UNCHANGED <<flags, streamVars, pingTimer, hasRecentPing>>
        BY <1>1, <2>1 DEF Subscribe, Inv, TypeOK
    <3>2. TypeOK'
        BY <1>1, <2>0, <3>1 DEF Subscribe, Inv, TypeOK, flags, streamVars
    <3>3. NotWedged' /\ OneStream' /\ UpForOwner'
        BY <1>1, <3>1 DEF Subscribe, Inv, NotWedged, OneStream, UpForOwner, flags,
                          streamVars
    <3> QED
        BY <3>2, <3>3 DEF Inv
  <2>2. CASE ~isStreaming
    <3>1. OpenStream(o) /\ isStreaming' = TRUE /\ owner' = o
        BY <1>1, <2>2 DEF Subscribe
    <3>2. TypeOK'
        BY <1>1, <2>0, <3>1, OpenStreamOpensOne
           DEF Subscribe, Inv, TypeOK
    <3>3. NotWedged'
        BY <3>1, OpenStreamOpensOne DEF Inv, NotWedged
    <3>4. OneStream' /\ UpForOwner'
        BY <3>1, OpenStreamOpensOne DEF Inv, OneStream, UpForOwner
    <3> QED
        BY <3>2, <3>3, <3>4 DEF Inv
  <2> QED
      BY <2>1, <2>2
<1>2. CASE EnsureConnected
  <2>1. owner \in Owners /\ OpenStream(owner)
      BY <1>2 DEF EnsureConnected, Inv, TypeOK
  <2>2. TypeOK'
      BY <1>2, <2>1, OpenStreamOpensOne
         DEF EnsureConnected, ReportConnection, Inv, TypeOK
  <2>3. NotWedged'
      BY <1>2, <2>1, OpenStreamOpensOne DEF EnsureConnected, Inv, NotWedged
  <2>4. OneStream' /\ UpForOwner'
      BY <1>2, <2>1, OpenStreamOpensOne
         DEF EnsureConnected, Inv, OneStream, UpForOwner
  <2> QED
      BY <2>2, <2>3, <2>4 DEF Inv
<1>3. CASE Stop
    BY <1>3, StopKeeps
       DEF Stop, Inv, TypeOK, NotWedged, OneStream, UpForOwner
<1>4. CASE PingTimerFires
  <2>1. timeouts' \in Nat
      BY <1>4 DEF PingTimerFires, Inv, TypeOK
  <2>7. TypeOK'
      BY <1>4, <2>1 DEF PingTimerFires, flags, streamVars, Inv, TypeOK
  <2>8. NotWedged'
      BY <1>4 DEF PingTimerFires, flags, streamVars, Inv, TypeOK, NotWedged
  <2>9. OneStream' /\ UpForOwner'
      BY <1>4 DEF PingTimerFires, flags, streamVars, Inv, OneStream, UpForOwner
  <2> QED
      BY <2>7, <2>8, <2>9 DEF Inv
<1>5. CASE HandleTimeout
  <2>1. timeouts' \in Nat
      BY <1>5 DEF HandleTimeout, Inv, TypeOK
  <2> QED
      BY <1>5, <2>1, ReconnectKeeps
         DEF HandleTimeout, Inv, TypeOK, NotWedged, OneStream, UpForOwner
<1>6. CASE ReconnectTimerFires
  <2>1. reconnects \in Nat /\ strayTimers \in Nat /\ reconnectTimer \in BOOLEAN
      BY DEF Inv, TypeOK
  <2>2. reconnects' \in Nat /\ reconnects' > 0
      BY <1>6, <2>1 DEF ReconnectTimerFires
  <2>3. strayTimers' \in Nat /\ reconnectTimer' \in BOOLEAN
    <3>1. CASE reconnectTimer /\ reconnectTimer' = FALSE /\ UNCHANGED strayTimers
        BY <2>1, <3>1
    <3>2. CASE /\ strayTimers > 0 /\ strayTimers' = strayTimers - 1
               /\ UNCHANGED reconnectTimer
      <4>1. strayTimers' \in Nat
          BY <2>1, <3>2
      <4> QED
          BY <2>1, <3>2, <4>1
    <3> QED
        BY <1>6, <3>1, <3>2 DEF ReconnectTimerFires
  <2>4. UNCHANGED <<flags, streamVars, isConnectionLive, hasRecentPing, pingTimer,
                    timeouts, callbacks, subscriber, toldLive>>
      BY <1>6 DEF ReconnectTimerFires
  <2>7. TypeOK'
      BY <2>2, <2>3, <2>4 DEF flags, streamVars, Inv, TypeOK
  <2>8. NotWedged'
      BY <2>2, <2>4 DEF flags, streamVars, Inv, NotWedged
  <2>9. OneStream' /\ UpForOwner'
      BY <2>4 DEF flags, streamVars, Inv, OneStream, UpForOwner
  <2> QED
      BY <2>7, <2>8, <2>9 DEF Inv
<1>7. CASE PerformReconnect
  <2>1. reconnects' \in Nat
      BY <1>7 DEF PerformReconnect, Inv, TypeOK
  <2>2. CASE isStreaming
    <3>1. owner \in Owners /\ OpenStream(owner)
        BY <1>7, <2>2 DEF PerformReconnect, Inv, TypeOK
    <3>2. TypeOK'
        BY <1>7, <2>1, <3>1, OpenStreamOpensOne
           DEF PerformReconnect, Inv, TypeOK
    <3>3. NotWedged'
        BY <1>7, <3>1, OpenStreamOpensOne DEF PerformReconnect, Inv, NotWedged
    <3>4. OneStream' /\ UpForOwner'
        BY <1>7, <2>2, <3>1, OpenStreamOpensOne
           DEF PerformReconnect, Inv, OneStream, UpForOwner
    <3> QED
        BY <3>2, <3>3, <3>4 DEF Inv
  <2>3. CASE ~isStreaming
      BY <1>7, <2>1, <2>3
         DEF PerformReconnect, Inv, TypeOK, NotWedged, OneStream, UpForOwner,
             streamVars
  <2> QED
      BY <2>2, <2>3
<1>8. CASE PingGrowsOld
    BY <1>8 DEF PingGrowsOld, Inv, TypeOK, NotWedged, OneStream, UpForOwner,
                flags, timers, streamVars
<1>9. ASSUME NEW g \in Generations, NEW r \in Responses, Receive(g, r) PROVE Inv'
    BY <1>9 DEF Receive, Inv, TypeOK, NotWedged, OneStream, UpForOwner,
                flags, timers, streamVars, Callbacks
<1>10. ASSUME NEW g \in Generations, Close(g) PROVE Inv'
  <2>1. callbacks' \in [Generations -> SUBSET Callbacks]
      BY <1>10 DEF Close, Inv, TypeOK, Callbacks
  <2> QED
      BY <1>10, <2>1 DEF Close, Inv, TypeOK, NotWedged, OneStream, UpForOwner,
                         flags, timers
<1>11. ASSUME NEW g \in Generations, NEW c \in Callbacks, HandleStale(g, c)
       PROVE  Inv'
    BY <1>11, CallbacksKeepType
       DEF HandleStale, Inv, TypeOK, NotWedged, OneStream, UpForOwner, flags,
           timers, streamVars
<1>12. ASSUME NEW g \in Generations, HandlePing(g) PROVE Inv'
  <2>1. callbacks' \in [Generations -> SUBSET Callbacks]
      BY <1>12, CallbacksKeepType DEF HandlePing, Inv, Callbacks, Responses
  <2> QED
      BY <1>12, <2>1
         DEF HandlePing, ReportConnection, Inv, TypeOK, NotWedged, OneStream,
             UpForOwner, flags, streamVars
<1>13. ASSUME NEW g \in Generations, HandleDenied(g) PROVE Inv'
  <2>1. callbacks' \in [Generations -> SUBSET Callbacks]
      BY <1>13, CallbacksKeepType DEF HandleDenied, Inv, Callbacks, Responses
  <2> QED
      BY <1>13, <2>1, StopKeeps
         DEF HandleDenied, Inv, TypeOK, NotWedged, OneStream, UpForOwner
<1>14. ASSUME NEW g \in Generations, HandleEnd(g) PROVE Inv'
  <2>1. callbacks' \in [Generations -> SUBSET Callbacks]
      BY <1>14, CallbacksKeepType DEF HandleEnd, Inv, Callbacks, Responses
  <2> QED
      BY <1>14, <2>1, ReconnectKeeps
         DEF HandleEnd, Inv, TypeOK, NotWedged, OneStream, UpForOwner
<1>15. CASE UNCHANGED vars
    BY <1>15 DEF vars, Inv, TypeOK, NotWedged, OneStream, UpForOwner, flags,
                 timers, streamVars
<1> QED
    BY <1>1, <1>2, <1>3, <1>4, <1>5, <1>6, <1>7, <1>8, <1>9, <1>10, <1>11,
       <1>12, <1>13, <1>14, <1>15
       DEF Next, Calls, Timers, Streams, Handle

LEMMA InvCorrect == Spec => []Inv
BY InvInit, InvNext, PTL DEF Spec

\* For any owners and bounds, the actor's variables keep their types; it has an
\* owner exactly while it streams, and holds no stream but the newest.
THEOREM StreamerTypeCorrect == Spec => []TypeOK
<1>1. Inv => TypeOK
    BY DEF Inv
<1> QED
    BY InvCorrect, <1>1, PTL

\* For any number of streams and late timers, a streaming streamer has a timer
\* or a call on its way that notices its stream's end (reconnect, openStream).
THEOREM NeverWedged == Spec => []NotWedged
<1>1. Inv => NotWedged
    BY DEF Inv
<1> QED
    BY InvCorrect, <1>1, PTL

\* For any number of streams and late callbacks, no stream but the one held is
\* up (openStream, stop, reconnect).
THEOREM AtMostOneStream == Spec => []OneStream
<1>1. Inv => OneStream
    BY DEF Inv
<1> QED
    BY InvCorrect, <1>1, PTL

\* What StreamKeeper sees of a state of the invariant.
LEMMA ServedIsOwner ==
    ASSUME Inv
    PROVE  Served = IF IsUp THEN owner ELSE NoOwner
BY DEF Inv, UpForOwner, Served, IsUp

LEMMA ServedBeforeAndAfter ==
    ASSUME Inv, Inv'
    PROVE  /\ Served = IF IsUp THEN owner ELSE NoOwner
           /\ Served' = IF IsUp' THEN owner' ELSE NoOwner
BY ServedIsOwner DEF Inv, UpForOwner, Served, IsUp

\* What each call of the actor is to its keeper.
LEMMA SubscribeKeeps ==
    ASSUME Inv, Inv', NEW o \in Owners, Subscribe(o)
    PROVE  Keeper!Keep(o)
<1>1. CASE isStreaming
  <2>1. owner # NoOwner
      BY <1>1 DEF Inv, TypeOK
  <2>2. UNCHANGED <<owner, connection, openedFor>>
      BY <1>1 DEF Subscribe, flags, streamVars
  <2>3. Served' = Served
      BY <2>2, ServedBeforeAndAfter DEF IsUp
  <2> QED
      BY <2>1, <2>2, <2>3 DEF Keeper!Keep
<1>2. CASE ~isStreaming
  <2>1. owner = NoOwner /\ owner' = o /\ OpenStream(o)
      BY <1>2 DEF Subscribe, Inv, TypeOK
  <2>2. connection'[streamReference'] = "up" /\ streamReference' \in Generations
      BY <2>1, OpenStreamOpensOne DEF Inv
  <2>3. Served' = o
      BY <2>1, <2>2, ServedBeforeAndAfter DEF IsUp
  <2> QED
      BY <2>1, <2>3 DEF Keeper!Keep
<1> QED
    BY <1>1, <1>2

LEMMA StopReleases ==
    ASSUME Inv, Inv', Stop
    PROVE  Keeper!Release
BY ServedBeforeAndAfter DEF Stop, StopStreaming, Keeper!Release

LEMMA EnsureReopens ==
    ASSUME Inv, Inv', EnsureConnected
    PROVE  Keeper!Reopen
<1>1. owner \in Owners /\ owner # NoOwner /\ owner' = owner /\ OpenStream(owner)
    BY OwnersAssumption DEF EnsureConnected, Inv, TypeOK
<1>2. connection'[streamReference'] = "up" /\ streamReference' \in Generations
    BY <1>1, OpenStreamOpensOne DEF Inv
<1>3. Served' = owner
    BY <1>1, <1>2, ServedBeforeAndAfter DEF IsUp
<1> QED
    BY <1>1, <1>3 DEF Keeper!Reopen

\* What its timers and streams do to it: nothing to a keeper without an owner.
LEMMA OnItsOwn ==
    ASSUME Inv, Inv', Timers \/ Streams
    PROVE  \/ UNCHANGED Keeper!keeperVars
           \/ owner # NoOwner /\ (Keeper!Drop \/ Keeper!Reopen \/ Keeper!Release)
<1>1. owner' = owner \/ owner' = NoOwner
    BY DEF Timers, Streams, Handle, StopStreaming, PingTimerFires, HandleTimeout,
           ReconnectTimerFires, PerformReconnect, PingGrowsOld, Receive, Close,
           HandleStale, HandlePing, HandleDenied, HandleEnd, flags
<1>2. CASE owner = NoOwner
    BY <1>1, <1>2, ServedBeforeAndAfter DEF Keeper!keeperVars
<1>3. CASE owner # NoOwner /\ owner' = NoOwner
    BY <1>3, ServedBeforeAndAfter DEF Keeper!Release
<1>4. CASE owner # NoOwner /\ owner' = owner
    BY <1>4, ServedBeforeAndAfter
       DEF Keeper!keeperVars, Keeper!Drop, Keeper!Reopen
<1> QED
    BY <1>1, <1>2, <1>3, <1>4

LEMMA KeeperStep == Inv /\ Inv' /\ [Next]_vars => [Keeper!KeeperNext]_(Keeper!keeperVars)
<1> SUFFICES ASSUME Inv, Inv', [Next]_vars
             PROVE  [Keeper!KeeperNext]_(Keeper!keeperVars)
    OBVIOUS
<1>1. CASE UNCHANGED vars
  <2>1. UNCHANGED <<owner, connection, openedFor>>
      BY <1>1 DEF vars, flags, streamVars
  <2> QED
      BY <2>1, ServedBeforeAndAfter DEF IsUp, Keeper!keeperVars
<1> QED
    BY <1>1, SubscribeKeeps, StopReleases, EnsureReopens, OnItsOwn
       DEF Next, Calls, Keeper!KeeperNext

\* For any owners and bounds, the streamer implements StreamKeeper: the stream
\* that is up is its owner's, and only stop and denied release the owner.
THEOREM StreamerKeepsOneStream == Spec => KeepsOneStream
<1>1. Init => Keeper!KeeperInit
  <2> SUFFICES ASSUME Init PROVE owner = NoOwner /\ Served = NoOwner
      BY DEF Keeper!KeeperInit
  <2> QED
      BY DEF Init, Served, IsUp
<1> QED
    BY InvCorrect, KeeperStep, <1>1, PTL DEF Spec, KeepsOneStream, Keeper!KeeperSpec

-----------------------------------------------------------------------------
\* Whose callbacks a step of the actor or of a stream changes.
LEMMA OneGenerationsCallbacks ==
    ASSUME TypeOK, NEW g \in Generations, NEW h \in Generations, NEW c \in Callbacks,
           Taken(h, c), callbacks'[g] # callbacks[g]
    PROVE  h = g
BY DEF Taken, TypeOK

\* A step that takes or adds a callback of a stream that is not up leaves the others up.
LEMMA CallbackSpares ==
    ASSUME Inv, [Next]_vars, NEW g \in Generations, callbacks'[g] # callbacks[g],
           connection[g] # "up", NEW h \in Generations, h # g, connection[h] = "up"
    PROVE  connection'[h] = "up"
<1>1. h = streamReference /\ h = streamGeneration
    BY DEF Inv, OneStream, TypeOK, None, Generations
<1>2. ASSUME NEW k \in Generations, NEW c \in Callbacks, Taken(k, c), k = streamGeneration
      PROVE  FALSE
    BY <1>1, <1>2, OneGenerationsCallbacks DEF Inv
<1>3. PICK k \in Generations : (\E r \in Responses : Receive(k, r)) \/ Close(k) \/ Handle(k)
    BY DEF Next, Calls, Timers, Streams, Subscribe, EnsureConnected, Stop, PingTimerFires,
           HandleTimeout, ReconnectTimerFires, PerformReconnect, PingGrowsOld, vars
<1>4. CASE \E r \in Responses : Receive(k, r)
    BY <1>4 DEF Receive, streamVars
<1>5. CASE Close(k)
  <2>1. k = g
      BY <1>5 DEF Close, Inv, TypeOK
  <2> QED
      BY <1>5, <2>1 DEF Close, Inv, TypeOK
<1>6. CASE \E c \in Callbacks : HandleStale(k, c)
    BY <1>6 DEF HandleStale, streamVars
<1>7. CASE HandlePing(k) \/ HandleDenied(k) \/ HandleEnd(k)
  <2>1. PICK c \in Callbacks : Taken(k, c)
      BY <1>7 DEF HandlePing, HandleDenied, HandleEnd, Callbacks, Responses
  <2>2. k = streamGeneration
      BY <1>7 DEF HandlePing, HandleDenied, HandleEnd
  <2> QED
      BY <1>2, <2>1, <2>2
<1> QED
    BY <1>3, <1>4, <1>5, <1>6, <1>7 DEF Handle

\* For any number of streams, a torn-down stream's late callback never tears down its
\* replacement (handleResponse, handleStreamStatus and their guard on the generation).
THEOREM LateCallbacksSpare == Spec => LateCallbackSparesReplacement
<1>1. Inv /\ [Next]_vars =>
          [\A g \in Generations :
              callbacks'[g] # callbacks[g] /\ connection[g] # "up"
                 => \A h \in Generations \ {g} :
                        connection[h] = "up" => connection'[h] = "up"]_vars
    BY CallbackSpares
<1> QED
    BY InvCorrect, <1>1, PTL DEF Spec, LateCallbackSparesReplacement

-----------------------------------------------------------------------------
(* The streamer under its sessions.                                        *)

\* To the actor a step of the composition is a step of its own, or none.
LEMMA ActorStep == [StreamsNext]_allVars => [Next]_vars
BY DEF StreamsNext, allVars, Next, Calls, SessionSubscribes, SessionStops,
       SessionEnsures, LeftAlone

\* Whom the stream is kept for, if not for the session signed in: a stop is on
\* its way or that owner's controller still reads.
StrayOwnerHasACause ==
    owner \notin {session, NoOwner} => stops > 0 \/ start[owner] = "wired"

CallsInv == SessionsTypeOK /\ StrayOwnerHasACause

LEMMA CallsInvInit == StreamsInit => CallsInv
BY SessionCallsAssumption
   DEF StreamsInit, Init, CallsInit, CallsInv, SessionsTypeOK, StrayOwnerHasACause,
       StartSteps

LEMMA CallsInvNext == Inv /\ CallsInv /\ [StreamsNext]_allVars => CallsInv'
<1> SUFFICES ASSUME Inv, CallsInv, [StreamsNext]_allVars PROVE CallsInv'
    OBVIOUS
<1> USE SessionCallsAssumption, OwnersAssumption
        DEF CallsInv, SessionsTypeOK, StrayOwnerHasACause, StartSteps
<1>0. owner \in Owners \cup {NoOwner}
    BY DEF Inv, TypeOK
<1>1. ASSUME NEW s \in Owners, Login(s), UNCHANGED vars PROVE CallsInv'
    BY <1>0, <1>1 DEF Login, vars, flags
<1>2. ASSUME NEW s \in Owners, Hydrated(s), UNCHANGED vars PROVE CallsInv'
    BY <1>0, <1>2 DEF Hydrated, vars, flags
<1>3. CASE Logout /\ UNCHANGED vars
    BY <1>0, <1>3 DEF Logout, vars, flags
<1>4. CASE BecomeActive /\ UNCHANGED vars
    BY <1>0, <1>4 DEF BecomeActive, vars, flags
<1>5. ASSUME NEW s \in Owners, SessionSubscribes(s) PROVE CallsInv'
  <2>1. owner' = owner \/ owner' = s
      BY <1>5 DEF SessionSubscribes, Subscribe, flags
  <2> QED
      BY <1>0, <1>5, <2>1 DEF SessionSubscribes, SubscribeRuns
<1>6. CASE SessionStops
    BY <1>6 DEF SessionStops, StopRuns, Stop, StopStreaming
<1>7. CASE SessionEnsures
  <2>1. owner' = owner
      BY <1>7 DEF SessionEnsures, EnsureConnected, LeftAlone, vars, flags
  <2> QED
      BY <1>7, <2>1 DEF SessionEnsures, EnsureRuns
<1>8. CASE (Timers \/ Streams) /\ UNCHANGED sessionVars
  <2>1. owner' = owner \/ owner' = NoOwner
      BY <1>8 DEF Timers, Streams, Handle, StopStreaming, PingTimerFires,
          HandleTimeout, ReconnectTimerFires, PerformReconnect, PingGrowsOld,
          Receive, Close, HandleStale, HandlePing, HandleDenied, HandleEnd, flags
  <2> QED
      BY <1>8, <2>1 DEF sessionVars
<1>9. CASE UNCHANGED allVars
    BY <1>9 DEF allVars, vars, flags, sessionVars
<1> QED
    BY <1>1, <1>2, <1>3, <1>4, <1>5, <1>6, <1>7, <1>8, <1>9
       DEF StreamsNext, OffTheActor

LEMMA StreamsInvCorrect == StreamsSpec => [](Inv /\ CallsInv)
<1>1. StreamsInit => Inv /\ CallsInv
    BY InvInit, CallsInvInit DEF StreamsInit
<1>2. Inv /\ CallsInv /\ [StreamsNext]_allVars => (Inv /\ CallsInv)'
    BY InvNext, ActorStep, CallsInvNext
<1> QED
    BY <1>1, <1>2, PTL DEF StreamsSpec

\* For any owners and bounds, the calls that wait and the steps of a start stay
\* what the controllers make them (ConversationController.start and stop).
THEOREM SessionsTypeCorrect == StreamsSpec => []SessionsTypeOK
<1>1. CallsInv => SessionsTypeOK
    BY DEF CallsInv
<1> QED
    BY StreamsInvCorrect, <1>1, PTL

\* For any number of sessions, streams, late timers and late callbacks, a stream
\* that is up for someone signed out is about to be stopped or was opened by a
\* subscribe after the logout (ConversationController.start and stop).
THEOREM StrayStreamsHaveACause == StreamsSpec => []StrayStreamHasACause
<1>1. Inv /\ CallsInv => StrayStreamHasACause
  <2> SUFFICES ASSUME Inv, CallsInv, NEW g \in Generations, connection[g] = "up",
                      openedFor[g] # session
               PROVE  stops > 0 \/ start[openedFor[g]] = "wired"
      BY DEF StrayStreamHasACause
  <2>1. openedFor[g] = owner
      BY DEF Inv, UpForOwner
  <2>2. owner # NoOwner
      BY DEF Inv, UpForOwner, TypeOK
  <2> QED
      BY <2>1, <2>2 DEF CallsInv, StrayOwnerHasACause
<1> QED
    BY StreamsInvCorrect, <1>1, PTL

LEMMA SessionsStep ==
    Inv /\ Inv' /\ [StreamsNext]_allVars
       => [Sessions!SessionsNext]_<<Sessions!keeperVars, Sessions!sessionVars>>
<1> SUFFICES ASSUME Inv, Inv', [StreamsNext]_allVars
             PROVE  [Sessions!SessionsNext]_<<Sessions!keeperVars, Sessions!sessionVars>>
    OBVIOUS
<1> USE DEF Sessions!SessionsNext
<1>0. ASSUME UNCHANGED vars PROVE UNCHANGED Sessions!keeperVars
  <2>1. UNCHANGED <<owner, connection, openedFor>>
      BY <1>0 DEF vars, flags, streamVars
  <2> QED
      BY <2>1, ServedBeforeAndAfter DEF IsUp, Sessions!keeperVars
<1>1. CASE OffTheActor /\ UNCHANGED vars
  <2>1. Sessions!OffTheActor
      BY <1>1 DEF OffTheActor, Login, Hydrated, Logout, BecomeActive,
                  Sessions!OffTheActor, Sessions!Login, Sessions!Hydrated,
                  Sessions!Logout, Sessions!BecomeActive
  <2> QED
      BY <1>0, <1>1, <2>1
<1>2. ASSUME NEW s \in Owners, SessionSubscribes(s)
      PROVE  Sessions!Subscribed(s)
  <2>1. Keeper!Keep(s)
      BY <1>2, SubscribeKeeps DEF SessionSubscribes
  <2> QED
      BY <1>2, <2>1 DEF SessionSubscribes, SubscribeRuns, Keeper!Keep,
                        Sessions!Subscribed, Sessions!SubscribeRuns, Sessions!Keep
<1>3. CASE SessionStops
  <2>1. Keeper!Release
      BY <1>3, StopReleases DEF SessionStops
  <2>2. Sessions!Stopped
      BY <1>3, <2>1 DEF SessionStops, StopRuns, Keeper!Release,
                        Sessions!Stopped, Sessions!StopRuns, Sessions!Release
  <2> QED
      BY <2>2
<1>4. CASE SessionEnsures
  <2>1. Sessions!Reopen \/ UNCHANGED Sessions!keeperVars
      BY <1>0, <1>4, EnsureReopens
         DEF SessionEnsures, LeftAlone, Keeper!Reopen, Sessions!Reopen
  <2>2. Sessions!Ensured
      BY <1>4, <2>1 DEF SessionEnsures, EnsureRuns, Sessions!Ensured,
                        Sessions!EnsureRuns
  <2> QED
      BY <2>2
<1>5. CASE (Timers \/ Streams) /\ UNCHANGED sessionVars
  <2>1. \/ UNCHANGED Sessions!keeperVars
        \/ owner # NoOwner /\ (Sessions!Drop \/ Sessions!Reopen \/ Sessions!Release)
      BY <1>5, OnItsOwn
         DEF Keeper!keeperVars, Keeper!Drop, Keeper!Reopen, Keeper!Release,
             Sessions!keeperVars, Sessions!Drop, Sessions!Reopen, Sessions!Release
  <2> QED
      BY <1>5, <2>1 DEF Sessions!Streamer, Sessions!sessionVars, sessionVars
<1>6. CASE UNCHANGED allVars
    BY <1>0, <1>6 DEF allVars, sessionVars, Sessions!sessionVars
<1> QED
    BY <1>1, <1>2, <1>3, <1>4, <1>5, <1>6 DEF StreamsNext

\* For any owners and bounds, the streamer under its sessions is a StreamKeeper
\* under them (subscribe, ensureConnected, stop, and what runs between the calls).
THEOREM StreamerDrivesAKeeper == StreamsSpec => DrivesAKeeper
<1>1. StreamsInit => Sessions!SessionsInit
  <2> SUFFICES ASSUME StreamsInit PROVE Sessions!SessionsInit
      OBVIOUS
  <2>1. Served = NoOwner
      BY DEF StreamsInit, Init, Served, IsUp
  <2> QED
      BY <2>1 DEF StreamsInit, Init, CallsInit, Sessions!SessionsInit,
                  Sessions!KeeperInit, Sessions!CallsInit
<1>2. StreamsSpec => []Inv
    BY StreamsInvCorrect, PTL
<1> QED
    BY <1>1, <1>2, SessionsStep, PTL
       DEF StreamsSpec, DrivesAKeeper, Sessions!SessionsSpec
=============================================================================
