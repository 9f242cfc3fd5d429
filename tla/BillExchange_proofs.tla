------------------------ MODULE BillExchange_proofs ------------------------
(***************************************************************************)
(* For any receivers and bounds the exchange keeps the bill's contract.    *)
(* The invariant follows a request from the server, which has recorded     *)
(* it, along the wire, the buffer and the giver's operation to the intent. *)
(***************************************************************************)
EXTENDS BillExchange, SequenceTheorems, TLAPS

\* Every request on its way was acknowledged.
RequestsAsked ==
    /\ buffer \in Seq(asked) /\ wire \in Seq(asked)
    /\ target \in asked \cup {Nobody}
    /\ transfer \in asked \cup {Nobody}
    /\ intent \in asked \cup {Nobody, Link}

\* The giver works on a request it took.
TargetTaken ==
    giver \in {"verifying", "transferring", "polling", "sent"} => target \in asked

\* Who believes the bill was paid is right.
BelievesWhatIsPaid ==
    /\ giver \in {"polling", "sent"} => intent = target
    /\ \A r \in Receivers : scan[r] = "received" => intent = r

\* The inductive invariant.
Inv == TypeOK /\ RequestsAsked /\ TargetTaken /\ BelievesWhatIsPaid

LEMMA InvInit == Init => Inv
<1> SUFFICES ASSUME Init PROVE Inv
    OBVIOUS
<1>1. TypeOK
  <2>1. buffer \in Seq(Receivers) /\ wire \in Seq(Receivers)
      BY DEF Init
  <2>2. /\ polls \in [Receivers -> Nat]
        /\ \A r \in Receivers :
              polls[r] < IF scan[r] = "polling" THEN IntentPolls ELSE GivePolls
      BY ExchangeAssumption DEF Init
  <2> QED
      BY <2>1, <2>2 DEF Init, TypeOK, GiverSteps, Running, ScanSteps
<1>2. RequestsAsked /\ TargetTaken /\ BelievesWhatIsPaid
    BY DEF Init, RequestsAsked, TargetTaken, BelievesWhatIsPaid
<1> QED
    BY <1>1, <1>2 DEF Inv

\* A request taken from a sequence of requests that were asked was asked.
LEMMA HeadAndTailAsked ==
    ASSUME NEW S, NEW q \in Seq(S), q # <<>>
    PROVE  Head(q) \in S /\ Tail(q) \in Seq(S)
BY HeadTailProperties

LEMMA SeqOfMore ==
    ASSUME NEW S, NEW T, S \subseteq T, NEW q \in Seq(S)
    PROVE  q \in Seq(T)
OBVIOUS

-----------------------------------------------------------------------------
\* The giver's own steps that touch neither its messages nor the intent.
QuietGiver ==
    \/ GiveRequestQueued \/ Advertised \/ AdvertiseFailed \/ RequestRefused
    \/ TransferFailed \/ Polled \/ Dismiss \/ SendAsLink \/ LinkFailed

LEMMA QuietGiverKeepsInv == Inv /\ QuietGiver => Inv'
<1> SUFFICES ASSUME Inv, QuietGiver PROVE Inv'
    OBVIOUS
<1> USE DEF QuietGiver, GiveRequestQueued, Advertised, AdvertiseFailed, RequestRefused,
            TransferFailed, Polled, Dismiss, SendAsLink, LinkFailed, CheckedFailure,
            receiverVars, serverVars, giverVars, Running
<1>1. TypeOK'
  <2>1. \/ UNCHANGED <<call, buffer, target, scan, polls, scanned, connected, asked, wire,
                      transfer, intent>>
        \/ call' = "connecting" /\ UNCHANGED <<buffer, target, scan, polls, scanned,
                      connected, asked, wire, transfer, intent>>
      OBVIOUS
  <2>2. giver' \in GiverSteps /\ cancelled' \in BOOLEAN /\ ignores' \in BOOLEAN
      BY DEF Inv, TypeOK, GiverSteps
  <2>3. linking' \in BOOLEAN /\ queued' \in BOOLEAN
      BY DEF Inv, TypeOK
  <2> QED
      BY <2>1, <2>2, <2>3 DEF Inv, TypeOK
<1>2. RequestsAsked'
    BY DEF Inv, RequestsAsked
<1>3. TargetTaken' /\ BelievesWhatIsPaid'
    BY DEF Inv, TargetTaken, BelievesWhatIsPaid
<1> QED
    BY <1>1, <1>2, <1>3 DEF Inv

\* The steps on which a request moves.
Moves ==
    \/ SkipRequest \/ TakeRequest \/ WaitCancelled \/ TransferSubmitted
    \/ TransferAcknowledged \/ AcceptTransfer \/ AcceptLink \/ Stream

LEMMA MovesKeepInv == Inv /\ Moves => Inv'
<1> SUFFICES ASSUME Inv, Moves PROVE Inv'
    OBVIOUS
<1> USE DEF receiverVars, serverVars, giverVars, streamUnchanged
<1>0. asked \subseteq Receivers /\ <<>> \in Seq(asked)
    BY DEF Inv, TypeOK
<1>1. CASE SkipRequest
  <2>1. buffer' \in Seq(asked)
      BY <1>1, HeadAndTailAsked DEF Inv, RequestsAsked, SkipRequest
  <2>2. buffer' \in Seq(Receivers)
      BY <1>0, <2>1, SeqOfMore
  <2> QED
      BY <1>1, <2>1, <2>2 DEF Inv, TypeOK, RequestsAsked, TargetTaken, BelievesWhatIsPaid,
                              SkipRequest
<1>2. CASE TakeRequest
  <2>1. target' \in asked /\ target' \in Receivers
      BY <1>0, <1>2, HeadAndTailAsked DEF Inv, RequestsAsked, TakeRequest
  <2>2. buffer' = <<>> /\ wire' = <<>> /\ <<>> \in Seq(Receivers)
      BY <1>2 DEF TakeRequest
  <2>3. TypeOK'
      BY <1>2, <2>1, <2>2 DEF Inv, TypeOK, TakeRequest, GiverSteps, Running
  <2> QED
      BY <1>0, <1>2, <2>1, <2>2, <2>3
      DEF Inv, RequestsAsked, TargetTaken, BelievesWhatIsPaid, TakeRequest
<1>3. CASE WaitCancelled
  <2>1. wire' = <<>> /\ <<>> \in Seq(Receivers)
      BY <1>3 DEF WaitCancelled
  <2> QED
      BY <1>0, <1>3, <2>1
      DEF Inv, TypeOK, GiverSteps, RequestsAsked, TargetTaken, BelievesWhatIsPaid,
          WaitCancelled
<1>4. CASE TransferSubmitted
    BY <1>0, <1>4 DEF Inv, TypeOK, GiverSteps, Running, RequestsAsked, TargetTaken,
                      BelievesWhatIsPaid, TransferSubmitted
<1>5. CASE TransferAcknowledged
    BY <1>5 DEF Inv, TypeOK, GiverSteps, Running, RequestsAsked, TargetTaken,
                BelievesWhatIsPaid, TransferAcknowledged
<1>6. CASE AcceptTransfer \/ AcceptLink
  <2>1. intent # Nobody => intent' = intent
      BY <1>6 DEF AcceptTransfer, AcceptLink
  <2>2. intent' \in asked \cup {Nobody, Link}
      BY <1>6 DEF Inv, RequestsAsked, AcceptTransfer, AcceptLink
  <2>3. giver \in {"polling", "sent"} => intent # Nobody
      BY <1>0, ExchangeAssumption DEF Inv, TargetTaken, BelievesWhatIsPaid
  <2>4. \A r \in Receivers : scan[r] = "received" => intent # Nobody
      BY ExchangeAssumption DEF Inv, BelievesWhatIsPaid
  <2>5. TypeOK'
      BY <1>0, <1>6, <2>2 DEF Inv, TypeOK, AcceptTransfer, AcceptLink
  <2>6. RequestsAsked' /\ TargetTaken'
      BY <1>6, <2>2 DEF Inv, RequestsAsked, TargetTaken, AcceptTransfer, AcceptLink
  <2>7. BelievesWhatIsPaid'
      BY <1>6, <2>1, <2>3, <2>4 DEF Inv, BelievesWhatIsPaid, AcceptTransfer, AcceptLink
  <2> QED
      BY <2>5, <2>6, <2>7 DEF Inv
<1>7. CASE Stream
  <2>1. buffer' \in Seq(asked) /\ wire' \in Seq(asked)
    <3>1. CASE Delivered
      <4>1. Head(wire) \in asked /\ Tail(wire) \in Seq(asked)
          BY <3>1, HeadAndTailAsked DEF Inv, RequestsAsked, Delivered
      <4>2. Append(buffer, Head(wire)) \in Seq(asked)
          BY <4>1, AppendProperties DEF Inv, RequestsAsked
      <4> QED
          BY <3>1, <4>1, <4>2 DEF Delivered
    <3>2. CASE ~Delivered
        BY <1>0, <1>7, <3>2 DEF Inv, RequestsAsked, Stream, StreamOpened, StreamUnavailable,
                                StreamEnded, ServerNotices
    <3> QED
        BY <3>1, <3>2
  <2>2. buffer' \in Seq(Receivers) /\ wire' \in Seq(Receivers)
      BY <1>0, <2>1, SeqOfMore
  <2>3. /\ UNCHANGED streamUnchanged
        /\ call' \in {"none", "connecting", "open", "ended"} /\ connected' \in BOOLEAN
      BY <1>7 DEF Inv, TypeOK, Stream, StreamOpened, Delivered, StreamUnavailable,
                  StreamEnded, ServerNotices
  <2>4. TypeOK'
      BY <2>2, <2>3 DEF Inv, TypeOK
  <2> QED
      BY <2>1, <2>3, <2>4 DEF Inv, RequestsAsked, TargetTaken, BelievesWhatIsPaid
<1> QED
    BY <1>1, <1>2, <1>3, <1>4, <1>5, <1>6, <1>7 DEF Moves

-----------------------------------------------------------------------------
\* What TypeOK says of the receivers.
ScansTyped ==
    /\ scan \in [Receivers -> ScanSteps] /\ polls \in [Receivers -> Nat]
    /\ \A x \in Receivers :
          polls[x] < IF scan[x] = "polling" THEN IntentPolls ELSE GivePolls
    /\ scanned \subseteq Receivers

\* r's scan goes on, ends or is tried again; the others' are left alone.
ScanMoves(r) ==
    /\ ScansTyped'
    /\ \A x \in Receivers \ {r} : scan'[x] = scan[x]

LEMMA ProceedMoves ==
    ASSUME ScansTyped, NEW r \in Receivers, NEW step \in ScanSteps, Proceed(r, step)
    PROVE  ScanMoves(r) /\ scan'[r] = step
<1>1. /\ scan' \in [Receivers -> ScanSteps] /\ polls' \in [Receivers -> Nat]
      /\ scan'[r] = step /\ polls'[r] = 0
      /\ \A x \in Receivers \ {r} : scan'[x] = scan[x] /\ polls'[x] = polls[x]
      /\ scanned' \subseteq Receivers
    BY DEF Proceed, ScansTyped
<1>2. 0 < IntentPolls /\ 0 < GivePolls
    BY ExchangeAssumption
<1> QED
    BY <1>1, <1>2 DEF ScanMoves, ScansTyped

LEMMA GiveUpMoves ==
    ASSUME ScansTyped, NEW r \in Receivers, GiveUp(r)
    PROVE  ScanMoves(r) /\ scan'[r] = "idle"
<1>1. /\ scan' \in [Receivers -> ScanSteps] /\ polls' \in [Receivers -> Nat]
      /\ scan'[r] = "idle" /\ polls'[r] = 0
      /\ \A x \in Receivers \ {r} : scan'[x] = scan[x] /\ polls'[x] = polls[x]
      /\ scanned' \subseteq Receivers
    BY DEF GiveUp, ScansTyped, ScanSteps
<1>2. 0 < GivePolls
    BY ExchangeAssumption
<1> QED
    BY <1>1, <1>2 DEF ScanMoves, ScansTyped

LEMMA MissMoves ==
    ASSUME ScansTyped, NEW r \in Receivers, NEW limit \in Nat, Miss(r, limit),
           limit = IF scan[r] = "polling" THEN IntentPolls ELSE GivePolls
    PROVE  ScanMoves(r) /\ scan'[r] \in {scan[r], "idle"}
<1>1. CASE polls[r] + 1 < limit
  <2>1. /\ polls' \in [Receivers -> Nat] /\ polls'[r] = polls[r] + 1
        /\ \A x \in Receivers \ {r} : polls'[x] = polls[x]
        /\ UNCHANGED <<scan, scanned>>
      BY <1>1 DEF Miss, ScansTyped
  <2> QED
      BY <1>1, <2>1 DEF ScanMoves, ScansTyped
<1>2. CASE ~(polls[r] + 1 < limit)
    BY <1>2, GiveUpMoves DEF Miss
<1> QED
    BY <1>1, <1>2

\* A receiver's step moves its own scan only, to an outcome it was paid for; it asks
\* at most once more.
LEMMA ReceiverStep ==
    ASSUME Inv, NEW r \in Receivers, Receiver(r)
    PROVE  /\ ScanMoves(r)
           /\ scan'[r] = "received" => intent = r
           /\ scan[r] = "received" => scan'[r] = "received"
           /\ asked' \in {asked, asked \cup {r}}
           /\ wire' \in {wire, Append(wire, r)}
           /\ wire' # wire => r \in asked'
           /\ UNCHANGED <<giverVars, queued, connected, transfer, intent>>
<1>0. /\ ScansTyped
      /\ {"seeking", "preparing", "hanging", "grabbing", "polling", "received"} \subseteq ScanSteps
    BY DEF Inv, TypeOK, ScansTyped, ScanSteps
<1>1. CASE Scan(r)
  <2>1. /\ scan' \in [Receivers -> ScanSteps] /\ scan'[r] = "seeking" /\ scan[r] = "idle"
        /\ \A x \in Receivers \ {r} : scan'[x] = scan[x]
        /\ polls' = polls /\ scanned' \subseteq Receivers
      BY <1>0, <1>1 DEF Scan, ScansTyped
  <2>2. ScanMoves(r)
      BY <1>0, <2>1 DEF ScanMoves, ScansTyped
  <2> QED
      BY <1>1, <2>1, <2>2 DEF Scan, serverVars
<1>2. CASE GiveRequestFound(r) \/ Prepared(r) \/ NeverPrepared(r)
    BY <1>0, <1>2, ProceedMoves DEF GiveRequestFound, Prepared, NeverPrepared, serverVars
<1>3. CASE NoGiveRequest(r)
    BY <1>0, <1>3, MissMoves, ExchangeAssumption DEF NoGiveRequest, serverVars
<1>4. CASE ScanFailed(r) \/ NoStream(r) \/ Denied(r)
    BY <1>0, <1>4, GiveUpMoves DEF ScanFailed, NoStream, Denied, serverVars
<1>5. CASE GrabAcknowledged(r)
    BY <1>0, <1>5, ProceedMoves, GiveUpMoves DEF GrabAcknowledged
<1>6. CASE IntentFound(r)
    BY <1>0, <1>6, ProceedMoves DEF IntentFound, serverVars
<1>7. CASE IntentMissed(r)
    BY <1>0, <1>7, MissMoves, ExchangeAssumption DEF IntentMissed, serverVars
<1> QED
    BY <1>1, <1>2, <1>3, <1>4, <1>5, <1>6, <1>7 DEF Receiver

LEMMA ReceiverKeepsInv ==
    ASSUME Inv, NEW r \in Receivers, Receiver(r)
    PROVE  Inv'
<1>1. /\ asked' \in {asked, asked \cup {r}}
      /\ wire' \in {wire, Append(wire, r)} /\ (wire' # wire => r \in asked')
      /\ UNCHANGED <<giverVars, queued, connected, transfer, intent>>
    BY ReceiverStep
<1>2. asked \subseteq asked' /\ asked' \subseteq Receivers
    BY <1>1 DEF Inv, TypeOK
<1>3. wire' \in Seq(asked') /\ buffer' \in Seq(asked')
  <2>1. wire \in Seq(asked') /\ buffer \in Seq(asked')
      BY <1>2, SeqOfMore DEF Inv, RequestsAsked
  <2>2. CASE wire' = wire
      BY <1>1, <2>1, <2>2 DEF giverVars
  <2>3. CASE wire' # wire
      BY <1>1, <2>1, <2>3, AppendProperties DEF giverVars
  <2> QED
      BY <2>2, <2>3
<1>4. wire' \in Seq(Receivers) /\ buffer' \in Seq(Receivers)
    BY <1>2, <1>3, SeqOfMore
<1>5. TypeOK'
    BY <1>1, <1>2, <1>4, ReceiverStep DEF Inv, TypeOK, ScanMoves, ScansTyped, giverVars
<1>6. RequestsAsked' /\ TargetTaken'
    BY <1>1, <1>2, <1>3 DEF Inv, RequestsAsked, TargetTaken, giverVars
<1>7. BelievesWhatIsPaid'
    BY <1>1, ReceiverStep DEF Inv, BelievesWhatIsPaid, ScanMoves, giverVars
<1> QED
    BY <1>5, <1>6, <1>7 DEF Inv

LEMMA InvStep == Inv /\ [Next]_vars => Inv'
<1> SUFFICES ASSUME Inv, [Next]_vars PROVE Inv'
    OBVIOUS
<1>1. CASE Giver \/ Stream \/ AcceptTransfer \/ AcceptLink
    BY <1>1, QuietGiverKeepsInv, MovesKeepInv DEF Giver, QuietGiver, Moves
<1>2. CASE \E r \in Receivers : Receiver(r)
    BY <1>2, ReceiverKeepsInv
<1>3. CASE UNCHANGED vars
    BY <1>3 DEF Inv, TypeOK, RequestsAsked, TargetTaken, BelievesWhatIsPaid, vars,
                giverVars, receiverVars, serverVars
<1> QED
    BY <1>1, <1>2, <1>3 DEF Next

LEMMA InvCorrect == Spec => []Inv
<1> QED
    BY InvInit, InvStep, PTL DEF Spec

\* For any receivers and bounds, every variable has its type and no poll makes more
\* attempts than it may (pollForGiveRequest, pollIntentMetadata).
THEOREM ExchangeTypeCorrect == Spec => []TypeOK
<1>1. Inv => TypeOK
    BY DEF Inv
<1> QED
    BY InvCorrect, <1>1, PTL

-----------------------------------------------------------------------------
\* Who is shown the bill as received.
Told == {r \in Receivers : scan[r] = "received"}
Sent == giver = "sent"

\* What a step of the exchange is to the contract.
LEMMA ContractStep == Inv /\ [Next]_vars => [Contract!ContractNext]_(Contract!contractVars)
<1> SUFFICES ASSUME Inv, [Next]_vars
             PROVE  [Contract!ContractNext]_(Contract!contractVars)
    OBVIOUS
<1> USE DEF Contract!contractVars
<1>1. CASE Giver /\ ~Polled
  <2>1. UNCHANGED <<asked, intent, scan>> /\ (giver = "sent" <=> giver' = "sent")
      BY <1>1 DEF Giver, GiveRequestQueued, Advertised, AdvertiseFailed, SkipRequest,
          TakeRequest, WaitCancelled, RequestRefused, TransferSubmitted,
          TransferAcknowledged, TransferFailed, Dismiss, SendAsLink, LinkFailed,
          CheckedFailure, giverVars, receiverVars, serverVars, Running
  <2> QED
      BY <2>1
<1>2. CASE Polled
  <2>1. UNCHANGED <<asked, intent, scan>> /\ giver = "polling"
      BY <1>2 DEF Polled, receiverVars, serverVars
  <2>2. intent \in asked
      BY <2>1 DEF Inv, TargetTaken, BelievesWhatIsPaid
  <2>3. CASE giver' = "sent"
      BY <2>1, <2>2, <2>3 DEF Contract!ContractNext, Contract!ConfirmSent
  <2>4. CASE giver' # "sent"
      BY <2>1, <2>4
  <2> QED
      BY <2>3, <2>4
<1>3. CASE Stream
    BY <1>3 DEF Stream, StreamOpened, Delivered, StreamUnavailable, StreamEnded,
                ServerNotices, streamUnchanged, receiverVars
<1>4. CASE AcceptTransfer \/ AcceptLink
  <2>1. UNCHANGED <<asked, giver, scan>>
      BY <1>4 DEF AcceptTransfer, AcceptLink, giverVars, receiverVars
  <2>2. CASE intent # Nobody
      BY <1>4, <2>1, <2>2 DEF AcceptTransfer, AcceptLink
  <2>3. CASE intent = Nobody
    <3>1. intent' \in asked \cup {Link}
        BY <1>4, <2>3 DEF AcceptTransfer, AcceptLink, Inv, RequestsAsked
    <3>2. intent' \in Receivers \cup {Link}
        BY <3>1 DEF Inv, TypeOK
    <3> QED
        BY <2>1, <2>3, <3>1, <3>2 DEF Contract!ContractNext, Contract!Pay
  <2> QED
      BY <2>2, <2>3
<1>5. CASE \E r \in Receivers : Receiver(r)
  <2>1. PICK r \in Receivers : Receiver(r)
      BY <1>5
  <2>2. UNCHANGED <<giver, intent>>
      BY <2>1, ReceiverStep DEF giverVars
  <2>3. CASE GrabAcknowledged(r)
    <3>1. asked' = asked \cup {r} /\ scan'[r] # "received" /\ scan[r] # "received"
        BY <2>3 DEF GrabAcknowledged, Proceed, GiveUp, Inv, TypeOK
    <3>2. Told' = Told
        BY <2>1, <3>1, ReceiverStep DEF Told, ScanMoves
    <3> QED
        BY <2>1, <2>2, <3>1, <3>2 DEF Contract!ContractNext, Contract!Ask, Told
  <2>4. CASE IntentFound(r)
    <3>1. asked' = asked /\ intent = r /\ scan'[r] = "received"
        BY <2>4 DEF IntentFound, Proceed, serverVars, Inv, TypeOK
    <3>2. Told' = Told \cup {r}
        BY <2>1, <3>1, ReceiverStep DEF Told, ScanMoves
    <3> QED
        BY <2>1, <2>2, <3>1, <3>2 DEF Contract!ContractNext, Contract!Tell, Told
  <2>5. CASE ~GrabAcknowledged(r) /\ ~IntentFound(r)
    <3>1. asked' = asked /\ scan'[r] # "received" /\ scan[r] # "received"
        BY <2>1, <2>5 DEF Receiver, Scan, GiveRequestFound, NoGiveRequest, Prepared,
            NeverPrepared, ScanFailed, NoStream, Denied, IntentMissed, Proceed, Miss, GiveUp, serverVars,
            Inv, TypeOK
    <3>2. Told' = Told
        BY <2>1, <3>1, ReceiverStep DEF Told, ScanMoves
    <3> QED
        BY <2>2, <3>1, <3>2 DEF Told
  <2> QED
      BY <2>3, <2>4, <2>5
<1>6. CASE UNCHANGED vars
    BY <1>6 DEF vars, giverVars, receiverVars, serverVars
<1> QED
    BY <1>1, <1>2, <1>3, <1>4, <1>5, <1>6 DEF Next

\* For any receivers and bounds, the exchange implements BillContract: streams that
\* break, lost answers, late transfers, dismissals and links let nobody be paid who
\* did not ask, nobody believe in a payment that was not made, and no second payee
\* in (SendCashOperation.run, ScanCashOperation.run, MessagingService).
THEOREM ExchangeKeepsContract == Spec => KeepsContract
<1>1. Init => Contract!ContractInit
    BY DEF Init, Contract!ContractInit
<1> QED
    BY InvCorrect, ContractStep, <1>1, PTL DEF Spec, KeepsContract, Contract!ContractSpec
=============================================================================
