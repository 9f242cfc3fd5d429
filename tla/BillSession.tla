---------------------------- MODULE BillSession ----------------------------
(***************************************************************************)
(* The life of a cash bill on one device: Session.showCashBill, the        *)
(* SendCashOperation it starts, the "Send as a Link" flow, the ways a bill *)
(* arrives (give, scan, cash link), and dismissCashBill.                   *)
(*                                                                         *)
(* Session and SendCashOperation are isolated to the main actor, so every  *)
(* stretch of code between two awaits is one action here and the awaits    *)
(* are where actions interleave.  The toast queue that showCashBill and    *)
(* dismissCashBill feed is module Toasts; here `announced' counts the      *)
(* "-amount" toasts each bill has enqueued.                                *)
(***************************************************************************)
EXTENDS Naturals, FiniteSets

CONSTANTS
    Bills,      \* the bills (SendCashOperations) the session may create
    NoBill,     \* nil, for sendOperation, billState.bill and valuation
    Tipcard     \* the tipcard, which TipFlow shows in billState.bill

ASSUME BillsAssumption ==
    /\ NoBill \notin Bills
    /\ Tipcard \notin Bills \cup {NoBill}

VARIABLES
    \* Session
    sendOperation,  \* Session.sendOperation
    shown,          \* Session.billState.bill
    actions,        \* billState.primaryAction and secondaryAction are set
    valuation,      \* Session.valuation, the "You received" sheet
    valuing,        \* received bills whose 750 ms valuation task is pending
    dialog,         \* Session.dialogItem
    \* the SendCashOperations
    op,             \* where run() is, or how it ended
    cancelled,      \* runTask.isCancelled
    ignoresStream,  \* SendCashOperation.ignoresStream
    \* "Send as a Link"
    link,           \* where the primary action of the bill is
    offered,        \* bills whose link reached the share sheet
    announced,      \* number of "-amount" toasts enqueued for the bill
    \* what may bring a bill or the tipcard on screen
    giving,         \* giveAction tasks before their showCashBill
    scanning,       \* Session.scanOperation # nil
    claiming,       \* receiveCashLink tasks in flight
    tip,            \* TipFlow: idle, preparing, presented
    \* the server
    intent          \* the intent the server accepted under the rendezvous key

serverVars == <<intent>>
incomingVars == <<giving, scanning, claiming, tip>>
linkVars == <<link, offered, announced>>
opVars == <<op, cancelled, ignoresStream>>
screenVars == <<sendOperation, shown, actions, valuation>>
vars == <<screenVars, valuing, dialog, opVars, linkVars,
          incomingVars, serverVars>>

\* runTask exists and run() has not returned.
Running == {"starting", "advertising", "awaiting", "verifying", "transferring",
            "polling"}
\* run() has returned or thrown; showCashBill's task has not seen it yet.
Ended == {"succeeded", "failed", "threwCancellation"}
OpStates == {"new", "created", "closed"} \cup Running \cup Ended

LinkStates == {"none", "creating", "funded", "failed", "sharing", "asking", "completing",
               "sent", "voiding", "voidAnswered"}

Dialogs == [kind : {"none", "error", "returned", "didYouSend", "areYouSure",
                    "collectOwn"},
            bill : Bills \cup {NoBill}]
NoDialog == [kind |-> "none", bill |-> NoBill]
ErrorDialog == [kind |-> "error", bill |-> NoBill]
DialogFor(kind, b) == [kind |-> kind, bill |-> b]

Intents == {"none", "transfer", "link", "voided", "collected"}

TypeOK ==
    /\ sendOperation \in Bills \cup {NoBill}
    /\ shown \in Bills \cup {NoBill, Tipcard}
    /\ actions \in BOOLEAN
    /\ valuation \in Bills \cup {NoBill}
    /\ valuing \subseteq Bills
    /\ dialog \in Dialogs
    /\ op \in [Bills -> OpStates]
    /\ cancelled \in [Bills -> BOOLEAN]
    /\ ignoresStream \in [Bills -> BOOLEAN]
    /\ link \in [Bills -> LinkStates]
    /\ offered \in [Bills -> BOOLEAN]
    /\ announced \in [Bills -> Nat]
    /\ giving \in Nat
    /\ scanning \in BOOLEAN
    /\ claiming \in Nat
    /\ tip \in {"idle", "preparing", "presented"}
    /\ intent \in [Bills -> Intents]

Init ==
    /\ sendOperation = NoBill
    /\ shown = NoBill
    /\ actions = FALSE
    /\ valuation = NoBill
    /\ valuing = {}
    /\ dialog = NoDialog
    /\ op = [b \in Bills |-> "new"]
    /\ cancelled = [b \in Bills |-> FALSE]
    /\ ignoresStream = [b \in Bills |-> FALSE]
    /\ link = [b \in Bills |-> "none"]
    /\ offered = [b \in Bills |-> FALSE]
    /\ announced = [b \in Bills |-> 0]
    /\ giving = 0
    /\ scanning = FALSE
    /\ claiming = 0
    /\ tip = "idle"
    /\ intent = [b \in Bills |-> "none"]

-----------------------------------------------------------------------------
(* What the handlers share.                                                *)

IsShowingBill == shown # NoBill

\* A dialog or a share sheet covers the bill: its buttons cannot be tapped.
Covered == dialog # NoDialog \/ \E b \in Bills : link[b] = "sharing"

\* SendCashOperation.cancel: nothing to cancel until start() stored runTask.
Cancel(b) == cancelled' = [cancelled EXCEPT ![b] = @ \/ op[b] # "created"]

\* Mutant: the bill stays in billState.
DismissKeepsBill ==
    /\ IF sendOperation \in Bills THEN Cancel(sendOperation)
                                  ELSE UNCHANGED cancelled
    /\ sendOperation' = NoBill
    /\ actions' = FALSE
    /\ valuation' = NoBill
    /\ UNCHANGED shown

\* dismissCashBill: cancels the stored operation, whichever it is, and clears
\* the bill, its buttons and the valuation.
DismissCashBill ==
    /\ IF sendOperation \in Bills THEN Cancel(sendOperation)
                                  ELSE UNCHANGED cancelled
    /\ sendOperation' = NoBill
    /\ shown' = NoBill
    /\ actions' = FALSE
    /\ valuation' = NoBill

\* showCashBill: a fresh operation replaces the stored one, which is neither
\* cancelled nor awaited.
ShowCashBill(b, isReceived) ==
    /\ op[b] = "new"
    /\ op' = [op EXCEPT ![b] = "created"]
    /\ sendOperation' = b
    /\ shown' = b
    /\ actions' = ~isReceived
    /\ valuing' = IF isReceived THEN valuing \cup {b} ELSE valuing
    /\ UNCHANGED <<valuation, cancelled, ignoresStream, linkVars>>

\* The valuation task of a received bill wakes up after 750 ms.
ShowValuation(b) ==
    /\ b \in valuing
    /\ valuing' = valuing \ {b}
    /\ valuation' = b
    /\ UNCHANGED <<sendOperation, shown, actions, dialog, opVars,
                   linkVars, incomingVars, serverVars>>

-----------------------------------------------------------------------------
(* SendCashOperation.run.                                                  *)

\* Where a catch block that starts with Task.checkCancellation leaves run().
CheckedFailure(b) == IF cancelled[b] THEN "threwCancellation" ELSE "failed"

OpStep(b, from, to) ==
    /\ op[b] = from
    /\ op' = [op EXCEPT ![b] = to]
    /\ UNCHANGED <<screenVars, valuing, dialog, cancelled,
                   ignoresStream, linkVars, incomingVars>>

\* showCashBill's task calls start(), which stores runTask.
Start(b) == OpStep(b, "created", "starting") /\ UNCHANGED serverVars

\* The database has no VM authority for the mint: no checkCancellation here.
MissingMintMetadata(b) ==
    OpStep(b, "starting", "failed") /\ UNCHANGED serverVars

\* The verified state is resolved, or found missing; either way it advertises.
Resolved(b) == OpStep(b, "starting", "advertising") /\ UNCHANGED serverVars

\* sendRequestToGiveBill returned; its Bool is ignored.
Advertised(b) == OpStep(b, "advertising", "awaiting") /\ UNCHANGED serverVars

AdvertiseFailed(b) ==
    OpStep(b, "advertising", CheckedFailure(b)) /\ UNCHANGED serverVars

\* A grab request arrives while the flag, read on the main actor, is off.
GrabRequested(b) ==
    /\ ~ignoresStream[b]
    /\ OpStep(b, "awaiting", "verifying")
    /\ UNCHANGED serverVars

\* Mutant: a bill that ignores its stream does not notice that it ended.
StreamClosedUnlessIgnoring(b) ==
    /\ cancelled[b] /\ ~ignoresStream[b]
    /\ OpStep(b, "awaiting", CheckedFailure(b))
    /\ UNCHANGED serverVars

\* The message stream hands over no error of its own, so awaitGrabRequest
\* throws only once the task is cancelled.
StreamClosed(b) ==
    /\ cancelled[b]
    /\ OpStep(b, "awaiting", CheckedFailure(b))
    /\ UNCHANGED serverVars

\* Bad signature, no verified state, or a stale one: no checkCancellation here.
GrabRejected(b) == OpStep(b, "verifying", "failed") /\ UNCHANGED serverVars

TransferSubmitted(b) ==
    OpStep(b, "verifying", "transferring") /\ UNCHANGED serverVars

TransferAcknowledged(b) ==
    /\ intent[b] = "transfer"
    /\ OpStep(b, "transferring", "polling")
    /\ UNCHANGED serverVars

\* Mutant: the error of transfer is swallowed.
TransferErrorSwallowed(b) ==
    OpStep(b, "transferring", "polling") /\ UNCHANGED serverVars

\* A rejection, or an error that hides whether the server took the intent.
TransferFailed(b) ==
    OpStep(b, "transferring", CheckedFailure(b)) /\ UNCHANGED serverVars

Settled(b) == OpStep(b, "polling", "succeeded") /\ UNCHANGED serverVars

\* pollLimitReached, or the server denied the caller.
PollFailed(b) == OpStep(b, "polling", CheckedFailure(b)) /\ UNCHANGED serverVars

Run(b) ==
    \/ Start(b) \/ MissingMintMetadata(b) \/ Resolved(b) \/ Advertised(b)
    \/ AdvertiseFailed(b) \/ StreamClosed(b) \/ GrabRejected(b)
    \/ TransferSubmitted(b) \/ TransferAcknowledged(b)
    \/ TransferFailed(b) \/ Settled(b) \/ PollFailed(b)

\* showCashBill's task after start() returned: toast, then dismissCashBill.
OnSettled(b) ==
    /\ op[b] = "succeeded"
    /\ op' = [op EXCEPT ![b] = "closed"]
    /\ announced' = [announced EXCEPT ![b] = @ + 1]
    /\ DismissCashBill
    /\ UNCHANGED <<valuing, dialog, ignoresStream, link, offered,
                   incomingVars, serverVars>>

OnCancelled(b) ==
    /\ op[b] = "threwCancellation"
    /\ op' = [op EXCEPT ![b] = "closed"]
    /\ UNCHANGED <<screenVars, valuing, dialog, cancelled,
                   ignoresStream, linkVars, incomingVars, serverVars>>

\* "The cash was returned to your wallet".
OnFailed(b) ==
    /\ op[b] = "failed"
    /\ op' = [op EXCEPT ![b] = "closed"]
    /\ DismissCashBill
    /\ dialog' = DialogFor("returned", b)
    /\ UNCHANGED <<valuing, ignoresStream, linkVars, incomingVars,
                   serverVars>>

Complete(b) == OnSettled(b) \/ OnCancelled(b) \/ OnFailed(b)

-----------------------------------------------------------------------------
(* "Send as a Link".                                                       *)

\* The primary action: grabs are ignored from here on, and createCashLink
\* submits the link under the rendezvous key the transfer would use.
SendAsLink(b) ==
    /\ shown = b /\ actions /\ ~Covered
    /\ link[b] \notin {"creating", "funded"}
    /\ ignoresStream' = [ignoresStream EXCEPT ![b] = TRUE]
    /\ link' = [link EXCEPT ![b] = "creating"]
    /\ UNCHANGED <<screenVars, valuing, dialog, op, cancelled,
                   offered, announced, incomingVars, serverVars>>

\* Is the bill the link was made for still the one the session is sending?
StillCurrent(b) == IsShowingBill /\ sendOperation = b

\* The gift card is funded: share it, or void it if the bill is gone.
LinkCreated(b) ==
    /\ link[b] = "funded"
    /\ IF StillCurrent(b)
       THEN /\ link' = [link EXCEPT ![b] = "sharing"]
            /\ offered' = [offered EXCEPT ![b] = TRUE]
       ELSE /\ link' = [link EXCEPT ![b] = "voiding"]
            /\ UNCHANGED offered
    /\ UNCHANGED <<screenVars, valuing, dialog, opVars, announced,
                   incomingVars, serverVars>>

\* A stale proof, a refusal, or an error after the server took the intent.
LinkFailed(b) ==
    /\ link[b] \in {"creating", "funded"}
    /\ link' = [link EXCEPT ![b] = "failed"]
    /\ dialog' = IF StillCurrent(b) THEN ErrorDialog ELSE dialog
    /\ UNCHANGED <<screenVars, valuing, opVars, offered, announced,
                   incomingVars, serverVars>>

\* The share sheet's completion asks, whatever bill is on screen by now.
ShareSheetClosed(b) ==
    /\ link[b] = "sharing"
    /\ link' = [link EXCEPT ![b] = "asking"]
    /\ dialog' = DialogFor("didYouSend", b)
    /\ UNCHANGED <<screenVars, valuing, opVars, offered, announced,
                   incomingVars, serverVars>>

\* Mutant: the question stays up after "Yes".
ConfirmSentKeepsAsking(b) ==
    /\ dialog = DialogFor("didYouSend", b)
    /\ actions' = FALSE
    /\ link' = [link EXCEPT ![b] = "completing"]
    /\ UNCHANGED <<sendOperation, shown, valuation, valuing, dialog, opVars,
                   offered, announced, incomingVars, serverVars>>

\* "Yes": the buttons of the bill on screen go, completeSend is scheduled.
ConfirmSent(b) ==
    /\ dialog = DialogFor("didYouSend", b)
    /\ dialog' = NoDialog
    /\ actions' = FALSE
    /\ link' = [link EXCEPT ![b] = "completing"]
    /\ UNCHANGED <<sendOperation, shown, valuation, valuing, opVars,
                   offered, announced, incomingVars, serverVars>>

\* completeSend, 250 ms later.
CompleteSend(b) ==
    /\ link[b] = "completing"
    /\ link' = [link EXCEPT ![b] = "sent"]
    /\ announced' = [announced EXCEPT ![b] = @ + 1]
    /\ DismissCashBill
    /\ UNCHANGED <<valuing, dialog, op, ignoresStream, offered,
                   incomingVars, serverVars>>

\* "No, Cancel Send" asks again; "Nevermind" goes back.
Reconsider(b) ==
    /\ \/ /\ dialog = DialogFor("didYouSend", b)
          /\ dialog' = DialogFor("areYouSure", b)
       \/ /\ dialog = DialogFor("areYouSure", b)
          /\ dialog' = DialogFor("didYouSend", b)
    /\ UNCHANGED <<screenVars, valuing, opVars, linkVars,
                   incomingVars, serverVars>>

\* "Yes" to "Are You Sure?": cancelSend.
CancelSend(b) ==
    /\ dialog = DialogFor("areYouSure", b)
    /\ dialog' = NoDialog
    /\ link' = [link EXCEPT ![b] = "voiding"]
    /\ DismissCashBill
    /\ UNCHANGED <<valuing, op, ignoresStream, offered, announced,
                   incomingVars, serverVars>>

\* cancelCashLink came back; a failure is only reported.
VoidAnswered(b) ==
    /\ link[b] = "voiding"
    /\ link' = [link EXCEPT ![b] = "voidAnswered"]
    /\ UNCHANGED <<screenVars, valuing, dialog, opVars, offered,
                   announced, incomingVars, serverVars>>

LinkStep(b) ==
    \/ LinkCreated(b) \/ LinkFailed(b) \/ CompleteSend(b) \/ VoidAnswered(b)

-----------------------------------------------------------------------------
(* The bill leaves the screen by the user's hand, or the app's.            *)

\* The cancel button, a swipe, or "Put in Wallet", which may outlive its bill.
UserDismisses ==
    /\ shown \in Bills \/ (shown = NoBill /\ valuation \in Bills)
    /\ ~Covered
    /\ DismissCashBill
    /\ UNCHANGED <<valuing, dialog, op, ignoresStream, linkVars,
                   incomingVars, serverVars>>

DidEnterBackground ==
    /\ sendOperation \in Bills
    /\ ~ignoresStream[sendOperation]
    /\ DismissCashBill
    /\ UNCHANGED <<valuing, dialog, op, ignoresStream, linkVars,
                   incomingVars, serverVars>>

DialogDismissed ==
    /\ dialog.kind \in {"error", "returned"}
    /\ dialog' = NoDialog
    /\ UNCHANGED <<screenVars, valuing, opVars, linkVars,
                   incomingVars, serverVars>>

-----------------------------------------------------------------------------
(* What brings a bill on screen.                                           *)

\* Bound: no more arrivals are in flight than there are bills left to create.
BillsLeft ==
    giving + claiming + (IF scanning THEN 1 ELSE 0)
        < Cardinality({b \in Bills : op[b] = "new"})

StartGive ==
    /\ ~IsShowingBill /\ ~Covered
    /\ BillsLeft
    /\ giving' = giving + 1
    /\ UNCHANGED <<screenVars, valuing, dialog, opVars, linkVars,
                   scanning, claiming, tip, serverVars>>

Give(b) ==
    /\ giving > 0
    /\ giving' = giving - 1
    /\ ShowCashBill(b, FALSE)
    /\ UNCHANGED <<dialog, scanning, claiming, tip, serverVars>>

\* Mutant: the refused give was never started.
GiveRefusedUnstarted ==
    /\ giving' = giving - 1
    /\ dialog' = ErrorDialog
    /\ UNCHANGED <<screenVars, valuing, opVars, linkVars, scanning, claiming,
                   tip, serverVars>>

\* No fresh rate, or over the limit.
GiveRefused ==
    /\ giving > 0
    /\ giving' = giving - 1
    /\ dialog' = ErrorDialog
    /\ UNCHANGED <<screenVars, valuing, opVars, linkVars, scanning,
                   claiming, tip, serverVars>>

\* ScanViewModel.didScan, didScanCash and receiveCash.
StartScan ==
    /\ ~IsShowingBill /\ ~scanning
    /\ BillsLeft
    /\ scanning' = TRUE
    /\ UNCHANGED <<screenVars, valuing, dialog, opVars, linkVars,
                   giving, claiming, tip, serverVars>>

Grabbed(b) ==
    /\ scanning
    /\ scanning' = FALSE
    /\ ShowCashBill(b, TRUE)
    /\ UNCHANGED <<dialog, giving, claiming, tip, serverVars>>

\* No stream, denied, out of polls and timed out stay silent; the rest do not.
GrabFailed ==
    /\ scanning
    /\ scanning' = FALSE
    /\ dialog' \in {dialog, ErrorDialog}
    /\ UNCHANGED <<screenVars, valuing, opVars, linkVars, giving,
                   claiming, tip, serverVars>>

\* A cash link opened by deep link or QR code: receiveCashLink.
OpenCashLink ==
    /\ BillsLeft
    /\ claiming' = claiming + 1
    /\ UNCHANGED <<screenVars, valuing, dialog, opVars, linkVars,
                   giving, scanning, tip, serverVars>>

Claimed(b) ==
    /\ claiming > 0
    /\ claiming' = claiming - 1
    /\ ShowCashBill(b, TRUE)
    /\ UNCHANGED <<dialog, giving, scanning, tip, serverVars>>

\* No amount (silent), already collected or an error, or the user's own link.
NotClaimed ==
    /\ claiming > 0
    /\ claiming' = claiming - 1
    /\ dialog' \in {dialog, ErrorDialog, DialogFor("collectOwn", NoBill)}
    /\ UNCHANGED <<screenVars, valuing, opVars, linkVars, giving,
                   scanning, tip, serverVars>>

\* "Collect" claims again with claimIfOwned; "Don't Collect" does not.
CollectOwn ==
    /\ dialog.kind = "collectOwn"
    /\ dialog' = NoDialog
    /\ \/ UNCHANGED claiming
       \/ BillsLeft /\ claiming' = claiming + 1
    /\ UNCHANGED <<screenVars, valuing, opVars, linkVars, giving,
                   scanning, tip, serverVars>>

\* TipFlow.begin and prepare.
BeginTip ==
    /\ tip = "idle" /\ dialog = NoDialog
    /\ tip' = "preparing"
    /\ UNCHANGED <<screenVars, valuing, dialog, opVars, linkVars,
                   giving, scanning, claiming, serverVars>>

\* TipFlow.present writes billState and leaves sendOperation alone.
PresentTip ==
    /\ tip = "preparing"
    /\ tip' = "presented"
    /\ shown' = Tipcard
    /\ actions' = FALSE
    /\ UNCHANGED <<sendOperation, valuation, valuing, dialog, opVars,
                   linkVars, giving, scanning, claiming, serverVars>>

TipNotAvailable ==
    /\ tip = "preparing"
    /\ tip' = "idle"
    /\ dialog' = ErrorDialog
    /\ UNCHANGED <<screenVars, valuing, opVars, linkVars, giving,
                   scanning, claiming, serverVars>>

\* TipFlow.cancel and finish.
EndTip ==
    /\ tip # "idle"
    /\ tip' = "idle"
    /\ IF shown = Tipcard THEN DismissCashBill
                          ELSE UNCHANGED <<screenVars, cancelled>>
    /\ UNCHANGED <<valuing, dialog, op, ignoresStream, linkVars,
                   giving, scanning, claiming, serverVars>>

-----------------------------------------------------------------------------
(* The server accepts one intent per id, and both flows of a bill use its  *)
(* rendezvous key as the id.                                               *)

ServerStep(b, from, to) ==
    /\ intent[b] = from
    /\ intent' = [intent EXCEPT ![b] = to]
    /\ UNCHANGED <<screenVars, valuing, dialog, opVars, offered,
                   announced, incomingVars>>

AcceptTransfer(b) ==
    op[b] = "transferring" /\ ServerStep(b, "none", "transfer") /\ UNCHANGED link

\* Mutant: the link intent is submitted under an id of its own.
AcceptLinkUnderFreshId(b) ==
    /\ link[b] = "creating"
    /\ link' = [link EXCEPT ![b] = "funded"]
    /\ intent' = [intent EXCEPT ![b] = IF @ = "none" THEN "link" ELSE @]
    /\ UNCHANGED <<screenVars, valuing, dialog, opVars, offered, announced,
                   incomingVars>>

AcceptLink(b) ==
    /\ link[b] = "creating"
    /\ ServerStep(b, "none", "link")
    /\ link' = [link EXCEPT ![b] = "funded"]

VoidLink(b) ==
    link[b] = "voiding" /\ ServerStep(b, "link", "voided") /\ UNCHANGED link

\* Somebody the link was shared with collects it.
CollectLink(b) ==
    offered[b] /\ ServerStep(b, "link", "collected") /\ UNCHANGED link

Server(b) ==
    AcceptTransfer(b) \/ AcceptLink(b) \/ VoidLink(b) \/ CollectLink(b)

-----------------------------------------------------------------------------
User(b) ==
    \/ SendAsLink(b) \/ ShareSheetClosed(b) \/ ConfirmSent(b)
    \/ Reconsider(b) \/ CancelSend(b)

Arrive(b) == Give(b) \/ Grabbed(b) \/ Claimed(b)

Environment ==
    \/ UserDismisses \/ DidEnterBackground \/ DialogDismissed
    \/ StartGive \/ GiveRefused \/ StartScan \/ GrabFailed
    \/ OpenCashLink \/ NotClaimed \/ CollectOwn
    \/ BeginTip \/ PresentTip \/ TipNotAvailable \/ EndTip

Next ==
    \/ Environment
    \/ \E b \in Bills :
        \/ Run(b) \/ GrabRequested(b) \/ Complete(b) \/ LinkStep(b)
        \/ ShowValuation(b) \/ User(b) \/ Arrive(b) \/ Server(b)

Spec == Init /\ [][Next]_vars

\* Every await of run() but one returns: unary calls carry a 15 s timeout, the
\* polls are counted, a cancelled stream ends.  submitIntent has no timeout, so
\* nothing is assumed of the transfer's answer.
Awaits(b) ==
    \/ Start(b) \/ Resolved(b) \/ Advertised(b) \/ AdvertiseFailed(b)
    \/ StreamClosed(b) \/ TransferSubmitted(b) \/ Settled(b) \/ PollFailed(b)

Fairness == \A b \in Bills : WF_vars(Awaits(b)) /\ WF_vars(Complete(b))

FairSpec == Spec /\ Fairness
-----------------------------------------------------------------------------
(* Properties.                                                             *)

\* A cash bill on screen is always backed by the stored, uncancelled operation
\* that still has an outcome to report: showCashBill and dismissCashBill keep
\* billState and sendOperation together whatever the other tasks, the orphaned
\* operations and TipFlow do in between, so no dead bill is left up.
BillOnScreenIsLive ==
    shown \in Bills =>
        /\ sendOperation = shown
        /\ ~cancelled[shown]
        /\ op[shown] \notin {"new", "threwCancellation", "closed"}

\* The "-amount" toast is never wrong and never repeated: it is enqueued by a
\* settled grab or a confirmed link, at most once per bill over both, and the
\* money it announces did leave (it was not a link voided by cancelSend or by
\* the orphaned link check).
ToastTellsTheTruth ==
    \A b \in Bills : announced[b] > 0 =>
        announced[b] = 1 /\ intent[b] \in {"transfer", "link", "collected"}

\* A bill whose link reached the share sheet is never also settled to a
\* grabber, although a grab taken just before the tap runs on beside
\* createCashLink: both intents carry the rendezvous key as their id.
NeverSharedAndSettled ==
    \A b \in Bills : offered[b] => op[b] \notin {"polling", "succeeded"}

\* The "Did You Send The Link?" dialogs are only up for a link that waits for
\* their answer: no link is completed or cancelled twice, or after the other.
QuestionIsOpen ==
    dialog.kind \in {"didYouSend", "areYouSure"} =>
        dialog.bill \in Bills /\ link[dialog.bill] = "asking"

\* A dismissed bill winds down: its operation closes, unless it is waiting for
\* the answer to a transfer it had already submitted.
DismissedBillWindsDown ==
    \A b \in Bills : cancelled[b] ~> op[b] \in {"closed", "transferring"}

\* What the failure dialog says: the cash did not leave the wallet.
ReturnedMeansNotPaid ==
    dialog.kind = "returned" => intent[dialog.bill] # "transfer"

\* What the comment in the primary action says of late errors: they do not
\* fire dialogs on unrelated bills the user has moved on to.
OrphanErrorsStaySilent ==
    [][\A b \in Bills :
          dialog' = DialogFor("returned", b) /\ dialog # dialog'
             => shown \in {b, NoBill, Tipcard}]_vars
=============================================================================
