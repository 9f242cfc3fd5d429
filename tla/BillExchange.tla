---------------------------- MODULE BillExchange ----------------------------
(***************************************************************************)
(* One bill between the phone that shows it and the phones that scan it.   *)
(* The giver's SendCashOperation advertises the bill under its rendezvous  *)
(* key, waits on a message stream for a request to grab it and transfers   *)
(* to whoever asked first; a receiver's ScanCashOperation polls for the    *)
(* advertisement, asks, and polls for the intent.  MessagingService keeps  *)
(* the stream, and the server, which is external, is modelled from how     *)
(* these use it.                                                           *)
(*                                                                         *)
(* The giver's dialogs and toasts are module BillSession, the stream's     *)
(* handle is module ServerStream.  Every receiver derives the rendezvous   *)
(* key from the code, so every request carries a valid signature.          *)
(***************************************************************************)
EXTENDS Naturals, Sequences

CONSTANTS
    Receivers,
    Nobody, Link,   \* whom an intent may pay besides a receiver
    GivePolls,      \* attempts of pollForGiveRequest: 10 in the code
    IntentPolls,    \* attempts of pollIntentMetadata: 50 in the code
    MaxMail         \* bound: requests on their way to the giver

ASSUME ExchangeAssumption ==
    /\ Nobody \notin Receivers /\ Link \notin Receivers /\ Nobody # Link
    /\ GivePolls \in Nat \ {0} /\ IntentPolls \in Nat \ {0} /\ MaxMail \in Nat \ {0}

VARIABLES
    \* the giver
    giver,      \* where SendCashOperation.run is, or how it ended
    cancelled,  \* runTask.isCancelled
    ignores,    \* SendCashOperation.ignoresStream
    linking,    \* createCashLink's submission is on its way
    call,       \* the message stream's call: none, connecting, open, ended
    buffer,     \* requests the AsyncThrowingStream holds
    target,     \* the receiver whose request was taken
    \* the receivers
    scan,       \* where ScanCashOperation.run is
    polls,      \* attempts of the poll it is in
    scanned,    \* the receivers whose scannedRendezvous holds the bill's key
    \* the server and the network
    queued,     \* the advertisement is in the rendezvous's queue
    connected,  \* the server takes the giver's stream for open
    asked,      \* the receivers whose request it acknowledged, ever
    wire,       \* requests between the server and the giver
    transfer,   \* the receiver a submitted transfer pays, until the server has it
    intent      \* whom the intent it accepted pays

giverVars == <<giver, cancelled, ignores, linking, call, buffer, target>>
receiverVars == <<scan, polls, scanned>>
serverVars == <<queued, connected, asked, wire, transfer, intent>>
vars == <<giverVars, receiverVars, serverVars>>

Running == {"advertising", "waiting", "verifying", "transferring", "polling"}
GiverSteps == Running \cup {"sent", "failed", "cancelled"}
ScanSteps == {"idle", "seeking", "preparing", "hanging", "grabbing", "polling", "received"}

TypeOK ==
    /\ giver \in GiverSteps
    /\ cancelled \in BOOLEAN /\ ignores \in BOOLEAN /\ linking \in BOOLEAN
    /\ call \in {"none", "connecting", "open", "ended"}
    /\ buffer \in Seq(Receivers) /\ wire \in Seq(Receivers)
    /\ target \in Receivers \cup {Nobody} /\ transfer \in Receivers \cup {Nobody}
    /\ scan \in [Receivers -> ScanSteps]
    /\ polls \in [Receivers -> Nat]
    /\ \A r \in Receivers : polls[r] < IF scan[r] = "polling" THEN IntentPolls ELSE GivePolls
    /\ scanned \subseteq Receivers /\ asked \subseteq Receivers
    /\ queued \in BOOLEAN /\ connected \in BOOLEAN
    /\ intent \in Receivers \cup {Nobody, Link}

Init ==
    /\ giver = "advertising"
    /\ cancelled = FALSE /\ ignores = FALSE /\ linking = FALSE
    /\ call = "none" /\ buffer = <<>> /\ target = Nobody
    /\ scan = [r \in Receivers |-> "idle"]
    /\ polls = [r \in Receivers |-> 0]
    /\ scanned = {}
    /\ queued = FALSE /\ connected = FALSE /\ asked = {} /\ wire = <<>>
    /\ transfer = Nobody /\ intent = Nobody

-----------------------------------------------------------------------------
(* The giver: SendCashOperation.run.                                       *)

\* Where a catch block that starts with Task.checkCancellation leaves run().
CheckedFailure == IF cancelled THEN "cancelled" ELSE "failed"

\* The request reaches the server, which queues it.  It answers that no stream is
\* open yet; the answer's Bool is not looked at.
GiveRequestQueued ==
    /\ giver = "advertising"
    /\ queued' = TRUE
    /\ UNCHANGED <<giverVars, receiverVars, connected, asked, wire, transfer, intent>>

\* awaitGrabRequest opens the message stream.
Advertised ==
    /\ giver = "advertising" /\ queued
    /\ giver' = "waiting" /\ call' = "connecting"
    /\ UNCHANGED <<cancelled, ignores, linking, buffer, target, receiverVars, serverVars>>

AdvertiseFailed ==
    /\ giver = "advertising"
    /\ giver' = CheckedFailure
    /\ UNCHANGED <<cancelled, ignores, linking, call, buffer, target, receiverVars, serverVars>>

\* shouldIgnore is on: the batch is skipped and never seen again.
SkipRequest ==
    /\ giver = "waiting" /\ buffer # <<>> /\ ignores
    /\ buffer' = Tail(buffer)
    /\ UNCHANGED <<giver, cancelled, ignores, linking, call, target, receiverVars, serverVars>>

\* The wait returns and its stream is torn down, the rest of its requests with it.
\* A cancelled task still takes what the stream had buffered.
TakeRequest ==
    /\ giver = "waiting" /\ buffer # <<>> /\ ~ignores
    /\ giver' = "verifying" /\ target' = Head(buffer)
    /\ buffer' = <<>> /\ call' = "none" /\ wire' = <<>>
    /\ UNCHANGED <<cancelled, ignores, linking, receiverVars, queued, connected, asked,
                   transfer, intent>>

\* Nothing else ends the wait: the stream's own end is not passed on.
WaitCancelled ==
    /\ giver = "waiting" /\ buffer = <<>> /\ cancelled
    /\ giver' = "cancelled" /\ call' = "none" /\ wire' = <<>>
    /\ UNCHANGED <<cancelled, ignores, linking, buffer, target, receiverVars, queued,
                   connected, asked, transfer, intent>>

\* No verified state, or a stale one.
RequestRefused ==
    /\ giver = "verifying"
    /\ giver' = "failed"
    /\ UNCHANGED <<cancelled, ignores, linking, call, buffer, target, receiverVars, serverVars>>

TransferSubmitted ==
    /\ giver = "verifying"
    /\ giver' = "transferring" /\ transfer' = target
    /\ UNCHANGED <<cancelled, ignores, linking, call, buffer, target, receiverVars,
                   queued, connected, asked, wire, intent>>

\* Mutant: any answer will do.
TransferAnswered ==
    /\ giver = "transferring"
    /\ giver' = "polling"
    /\ UNCHANGED <<cancelled, ignores, linking, call, buffer, target, receiverVars, serverVars>>

TransferAcknowledged ==
    /\ giver = "transferring" /\ intent = target
    /\ giver' = "polling"
    /\ UNCHANGED <<cancelled, ignores, linking, call, buffer, target, receiverVars, serverVars>>

\* A refusal, or an error that hides whether the server has it or will have it.
TransferFailed ==
    /\ giver = "transferring"
    /\ giver' = CheckedFailure
    /\ UNCHANGED <<cancelled, ignores, linking, call, buffer, target, receiverVars, serverVars>>

\* pollIntentMetadata finds the intent, or runs out of attempts.
Polled ==
    /\ giver = "polling"
    /\ giver' \in {"sent", CheckedFailure}
    /\ UNCHANGED <<cancelled, ignores, linking, call, buffer, target, receiverVars, serverVars>>

\* dismissCashBill
Dismiss ==
    /\ giver \in Running /\ ~cancelled
    /\ cancelled' = TRUE
    /\ UNCHANGED <<giver, ignores, linking, call, buffer, target, receiverVars, serverVars>>

\* "Send as a Link", whose failure leaves ignoresStream on.
SendAsLink ==
    /\ giver \in Running /\ ~cancelled /\ ~linking
    /\ ignores' = TRUE /\ linking' = TRUE
    /\ UNCHANGED <<giver, cancelled, call, buffer, target, receiverVars, serverVars>>

LinkFailed ==
    /\ linking
    /\ linking' = FALSE
    /\ UNCHANGED <<giver, cancelled, ignores, call, buffer, target, receiverVars, serverVars>>

Giver ==
    \/ GiveRequestQueued \/ Advertised \/ AdvertiseFailed
    \/ SkipRequest \/ TakeRequest \/ WaitCancelled
    \/ RequestRefused \/ TransferSubmitted \/ TransferAcknowledged \/ TransferFailed
    \/ Polled \/ Dismiss \/ SendAsLink \/ LinkFailed

-----------------------------------------------------------------------------
(* The message stream: MessagingService.openMessageStream.                 *)

streamUnchanged == <<giver, cancelled, ignores, linking, target, receiverVars, queued, asked,
                     transfer, intent>>

StreamOpened ==
    /\ call = "connecting"
    /\ call' = "open" /\ connected' = TRUE
    /\ UNCHANGED <<buffer, wire, streamUnchanged>>

\* The batch waits for the main actor and is handed to the AsyncThrowingStream.
Delivered ==
    /\ call = "open" /\ wire # <<>>
    /\ buffer' = Append(buffer, Head(wire)) /\ wire' = Tail(wire)
    /\ UNCHANGED <<call, connected, streamUnchanged>>

\* The call fails with `unavailable': it is opened again at once.  The server may
\* not have noticed; what was on the wire is gone.
StreamUnavailable ==
    /\ call \in {"connecting", "open"}
    /\ call' = "connecting" /\ wire' = <<>>
    /\ connected' \in {connected, FALSE}
    /\ UNCHANGED <<buffer, streamUnchanged>>

\* Any other end, the server's own close among them: the call is not opened again
\* and the wait is not told.
StreamEnded ==
    /\ call \in {"connecting", "open"}
    /\ call' = "ended" /\ wire' = <<>>
    /\ connected' \in {connected, FALSE}
    /\ UNCHANGED <<buffer, streamUnchanged>>

ServerNotices ==
    /\ connected /\ call # "open"
    /\ connected' = FALSE
    /\ UNCHANGED <<call, buffer, wire, streamUnchanged>>

Stream ==
    StreamOpened \/ Delivered \/ StreamUnavailable \/ StreamEnded \/ ServerNotices

-----------------------------------------------------------------------------
(* The server accepts one intent per id, and the transfer and the link     *)
(* both use the rendezvous key.                                            *)

\* Also after the giver gave up waiting for the answer.
AcceptTransfer ==
    /\ transfer # Nobody
    /\ transfer' = Nobody
    /\ intent' = IF intent = Nobody THEN transfer ELSE intent
    /\ UNCHANGED <<giverVars, receiverVars, queued, connected, asked, wire>>

AcceptLink ==
    /\ linking
    /\ linking' = FALSE
    /\ intent' = IF intent = Nobody THEN Link ELSE intent
    /\ UNCHANGED <<giver, cancelled, ignores, call, buffer, target, receiverVars, queued,
                   connected, asked, wire, transfer>>

-----------------------------------------------------------------------------
(* A receiver: ScanViewModel.didScanCash, ScanCashOperation.run.           *)

\* Mutant: nothing is forgotten when a scan fails.
GiveUpForGood(r) ==
    /\ scan' = [scan EXCEPT ![r] = "idle"]
    /\ polls' = [polls EXCEPT ![r] = 0]
    /\ UNCHANGED scanned

\* The outcomes .failed and .noStream: the code may be scanned again.
GiveUp(r) ==
    /\ scan' = [scan EXCEPT ![r] = "idle"]
    /\ polls' = [polls EXCEPT ![r] = 0]
    /\ scanned' = scanned \ {r}

Proceed(r, step) ==
    /\ scan' = [scan EXCEPT ![r] = step]
    /\ polls' = [polls EXCEPT ![r] = 0]
    /\ UNCHANGED scanned

\* Mutant: one attempt too many.
MissOnceMore(r, limit) ==
    IF polls[r] + 1 <= limit
    THEN polls' = [polls EXCEPT ![r] = @ + 1] /\ UNCHANGED <<scan, scanned>>
    ELSE GiveUp(r)

\* Mutant: an error does not count as an attempt.
MissUncounted(r, limit) == UNCHANGED receiverVars

\* One more attempt is spent, perhaps the last one.
Miss(r, limit) ==
    IF polls[r] + 1 < limit
    THEN polls' = [polls EXCEPT ![r] = @ + 1] /\ UNCHANGED <<scan, scanned>>
    ELSE GiveUp(r)

Scan(r) ==
    /\ scan[r] = "idle" /\ r \notin scanned
    /\ scan' = [scan EXCEPT ![r] = "seeking"]
    /\ scanned' = scanned \cup {r}
    /\ UNCHANGED <<polls, giverVars, serverVars>>

\* pollForGiveRequest
GiveRequestFound(r) ==
    /\ scan[r] = "seeking" /\ queued
    /\ Proceed(r, "preparing")
    /\ UNCHANGED <<giverVars, serverVars>>

NoGiveRequest(r) ==
    /\ scan[r] = "seeking" /\ ~queued
    /\ Miss(r, GivePolls)
    /\ UNCHANGED <<giverVars, serverVars>>

\* The mint's metadata is there and its accounts are created.
Prepared(r) ==
    /\ scan[r] = "preparing"
    /\ Proceed(r, "grabbing")
    /\ UNCHANGED <<giverVars, serverVars>>

\* createAccounts is a submitIntent stream without a timeout: the server keeps it
\* open and silent, or closes it in order before the answer, and its completion is
\* never called.  The operation stays, and the code cannot be scanned again.
NeverPrepared(r) ==
    /\ scan[r] = "preparing"
    /\ Proceed(r, "hanging")
    /\ UNCHANGED <<giverVars, serverVars>>

\* A call of any of these steps fails, or its answer is lost.
ScanFailed(r) ==
    /\ scan[r] \in {"seeking", "preparing", "grabbing"}
    /\ GiveUp(r)
    /\ UNCHANGED <<giverVars, serverVars>>

\* sendRequestToGrabBill, while the server takes the stream for open.  Only a call
\* that really is open will get the request.
GrabAcknowledged(r) ==
    /\ scan[r] = "grabbing" /\ connected
    /\ Len(wire) + Len(buffer) < MaxMail
    /\ asked' = asked \cup {r}
    /\ wire' = IF call = "open" THEN Append(wire, r) ELSE wire
    /\ Proceed(r, "polling") \/ GiveUp(r)
    /\ UNCHANGED <<giverVars, queued, connected, transfer, intent>>

\* noOpenStreamForRendezvous
NoStream(r) ==
    /\ scan[r] = "grabbing" /\ ~connected
    /\ GiveUp(r)
    /\ UNCHANGED <<giverVars, serverVars>>

\* pollIntentMetadata: the intent pays r.
IntentFound(r) ==
    /\ scan[r] = "polling" /\ intent = r
    /\ Proceed(r, "received")
    /\ UNCHANGED <<giverVars, serverVars>>

\* It pays somebody else: ClientError.denied.
Denied(r) ==
    /\ scan[r] = "polling" /\ intent \notin {r, Nobody}
    /\ GiveUp(r)
    /\ UNCHANGED <<giverVars, serverVars>>

\* There is none yet, or an error, which is swallowed and counts as an attempt.
IntentMissed(r) ==
    /\ scan[r] = "polling"
    /\ Miss(r, IntentPolls)
    /\ UNCHANGED <<giverVars, serverVars>>

Receiver(r) ==
    \/ Scan(r) \/ GiveRequestFound(r) \/ NoGiveRequest(r)
    \/ Prepared(r) \/ NeverPrepared(r) \/ ScanFailed(r)
    \/ GrabAcknowledged(r) \/ NoStream(r)
    \/ IntentFound(r) \/ Denied(r) \/ IntentMissed(r)

-----------------------------------------------------------------------------
Next ==
    \/ Giver \/ Stream \/ AcceptTransfer \/ AcceptLink
    \/ \E r \in Receivers : Receiver(r)

Spec == Init /\ [][Next]_vars

\* A unary call is answered or times out after 15 s, and the polls are counted.
\* createAccounts may not be answered at all: NeverPrepared is one of the outcomes.
Answers(r) ==
    \/ GiveRequestFound(r) \/ NoGiveRequest(r)
    \/ Prepared(r) \/ NeverPrepared(r) \/ ScanFailed(r)
    \/ GrabAcknowledged(r) \/ NoStream(r) \/ Denied(r) \/ IntentMissed(r)

\* A camera that still sees the code scans it again, and a call that is made again
\* and again, each time answered, gets through some time.
Fairness ==
    /\ WF_vars(Delivered) /\ WF_vars(TakeRequest)
    /\ \A r \in Receivers :
        /\ WF_vars(Scan(r)) /\ WF_vars(Answers(r))
        /\ SF_vars(GiveRequestFound(r)) /\ SF_vars(Prepared(r))
        /\ SF_vars(GrabAcknowledged(r))

FairSpec == Spec /\ Fairness

-----------------------------------------------------------------------------
\* The exchange keeps the bill's contract.
Contract == INSTANCE BillContract WITH
    paid <- intent,
    told <- {r \in Receivers : scan[r] = "received"},
    sent <- giver = "sent"

\* At most one receiver is paid, by a request that reached the server while the
\* bill was up, or the link is; a receiver is shown the bill only if it was paid,
\* and for good; the giver is told that it was sent only if a receiver has it.
\* Streams that break, answers that are lost, dismissals and links in between, and
\* transfers that reach the server late change nothing of this.
KeepsContract == Contract!ContractSpec

\* A scan ends: it shows the bill or lets the code be scanned again, whatever
\* becomes of the giver; unless its createAccounts is never answered.
ScansEnd ==
    \A r \in Receivers : scan[r] # "idle" ~> scan[r] \in {"idle", "received", "hanging"}

\* A bill that stays up on a live stream, heeding it, does not stay up for ever
\* while somebody keeps scanning it: although a request is lost when the stream
\* breaks and a receiver may ask in vain, its code can be scanned again.  Only if
\* the createAccounts of everybody who scans it hangs may it stay.
KeptUpIsGrabbed ==
    ~<>[](/\ giver = "waiting" /\ call = "open" /\ connected /\ ~ignores
          /\ \E r \in Receivers : scan[r] # "hanging")
=============================================================================
