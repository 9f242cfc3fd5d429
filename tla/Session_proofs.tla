--------------------------- MODULE Session_proofs ---------------------------
(***************************************************************************)
(* For any set of bills, BillSession keeps its type and its four           *)
(* invariants.  None of the four is inductive: each rests on how the       *)
(* operation, the link and the server's intent of one bill stand to each   *)
(* other, which ScreenInv and MoneyInv say.                                *)
(*                                                                         *)
(* Whatever the number of toasts and of consumer tasks, Toasts forgets no  *)
(* queued toast and shows them oldest first.                               *)
(*                                                                         *)
(* SessionToasts, the two as the one actor they are, implements both, so   *)
(* that everything proved of either holds of Session.                      *)
(***************************************************************************)
EXTENDS SessionToasts, SequenceTheorems, TLAPS

-----------------------------------------------------------------------------
(* The bill.                                                               *)

\* A bill that has not been shown has no past.
NewIsUntouched ==
    \A b \in Bills : op[b] = "new" => ~cancelled[b] /\ link[b] = "none"

\* The stored operation is uncancelled and has an outcome to report.
StoredIsLive ==
    sendOperation \in Bills =>
        /\ ~cancelled[sendOperation]
        /\ op[sendOperation] \notin {"new", "threwCancellation", "closed"}

\* A cash bill on screen is the stored one.
ShownIsStored == shown \in Bills => sendOperation = shown

\* From its funding to its confirmation a link's money is in the link, or
\* collected from it.
LinkIsFunded ==
    \A b \in Bills :
        link[b] \in {"funded", "sharing", "asking", "completing", "sent"}
            => intent[b] \in {"link", "collected"}

\* A link that was offered took the rendezvous key's intent.
OfferedTookIntent ==
    \A b \in Bills : offered[b] => intent[b] \in {"link", "voided", "collected"}

\* A grab is only polled for once its transfer took the intent.
GrabTookIntent ==
    \A b \in Bills :
        op[b] \in {"polling", "succeeded"} => intent[b] = "transfer"

\* Who announced a bill is done with it.
AnnouncedOnce ==
    \A b \in Bills : announced[b] > 0 =>
        /\ announced[b] = 1
        /\ \/ op[b] = "closed" /\ intent[b] = "transfer"
           \/ link[b] = "sent" /\ intent[b] \in {"link", "collected"}

\* A link that was sent cannot be sent again: its bill is gone for good.
SentIsGone == \A b \in Bills : link[b] = "sent" => sendOperation # b

ScreenInv == NewIsUntouched /\ StoredIsLive /\ ShownIsStored

MoneyInv ==
    LinkIsFunded /\ OfferedTookIntent /\ GrabTookIntent /\ AnnouncedOnce
    /\ SentIsGone

\* Every step keeps the variables in their types.
LEMMA TypeNext == TypeOK /\ [Next]_vars => TypeOK'
<1> SUFFICES ASSUME TypeOK, [Next]_vars
             PROVE  TypeOK'
    OBVIOUS
<1> USE DEF vars, screenVars, opVars, linkVars, incomingVars, serverVars,
        TypeOK, Dialogs, DialogFor, NoDialog, ErrorDialog, OpStates, Running,
        Ended, LinkStates, Intents
<1>1. ASSUME NEW b \in Bills, Run(b) PROVE TypeOK'
  <2>1. CASE Start(b)
      BY <2>1 DEF Start, OpStep
  <2>2. CASE MissingMintMetadata(b)
      BY <2>2 DEF MissingMintMetadata, OpStep
  <2>3. CASE Resolved(b)
      BY <2>3 DEF Resolved, OpStep
  <2>4. CASE Advertised(b)
      BY <2>4 DEF Advertised, OpStep
  <2>5. CASE AdvertiseFailed(b)
      BY <2>5 DEF AdvertiseFailed, OpStep, CheckedFailure
  <2>6. CASE StreamClosed(b)
      BY <2>6 DEF StreamClosed, OpStep, CheckedFailure
  <2>7. CASE GrabRejected(b)
      BY <2>7 DEF GrabRejected, OpStep
  <2>8. CASE TransferSubmitted(b)
      BY <2>8 DEF TransferSubmitted, OpStep
  <2>9. CASE TransferAcknowledged(b)
      BY <2>9 DEF TransferAcknowledged, OpStep
  <2>10. CASE TransferFailed(b)
      BY <2>10 DEF TransferFailed, OpStep, CheckedFailure
  <2>11. CASE Settled(b)
      BY <2>11 DEF Settled, OpStep
  <2>12. CASE PollFailed(b)
      BY <2>12 DEF PollFailed, OpStep, CheckedFailure
  <2> QED
      BY <1>1, <2>1, <2>2, <2>3, <2>4, <2>5, <2>6, <2>7, <2>8, <2>9, <2>10,
          <2>11, <2>12 DEF Run
<1>2. ASSUME NEW b \in Bills, Complete(b) PROVE TypeOK'
  <2>1. CASE OnSettled(b)
    <3>1. announced' \in [Bills -> Nat]
        BY <2>1 DEF OnSettled
    <3> QED
        BY <2>1, <3>1 DEF OnSettled, DismissCashBill, Cancel
  <2>2. CASE OnCancelled(b)
      BY <2>2 DEF OnCancelled
  <2>3. CASE OnFailed(b)
      BY <2>3 DEF OnFailed, DismissCashBill, Cancel
  <2> QED
      BY <1>2, <2>1, <2>2, <2>3 DEF Complete
<1>3. ASSUME NEW b \in Bills, LinkStep(b) PROVE TypeOK'
  <2>1. CASE LinkCreated(b)
    <3>1. link' \in [Bills -> LinkStates]
        BY <2>1 DEF LinkCreated
    <3>2. offered' \in [Bills -> BOOLEAN]
        BY <2>1 DEF LinkCreated
    <3> QED
        BY <2>1, <3>1, <3>2 DEF LinkCreated
  <2>2. CASE LinkFailed(b)
      BY <2>2 DEF LinkFailed
  <2>3. CASE CompleteSend(b)
    <3>1. announced' \in [Bills -> Nat]
        BY <2>3 DEF CompleteSend
    <3> QED
        BY <2>3, <3>1 DEF CompleteSend, DismissCashBill, Cancel
  <2>4. CASE VoidAnswered(b)
      BY <2>4 DEF VoidAnswered
  <2> QED
      BY <1>3, <2>1, <2>2, <2>3, <2>4 DEF LinkStep
<1>4. ASSUME NEW b \in Bills, User(b) PROVE TypeOK'
  <2>1. CASE SendAsLink(b)
      BY <2>1 DEF SendAsLink
  <2>2. CASE ShareSheetClosed(b)
      BY <2>2 DEF ShareSheetClosed
  <2>3. CASE ConfirmSent(b)
      BY <2>3 DEF ConfirmSent
  <2>4. CASE Reconsider(b)
      BY <2>4 DEF Reconsider
  <2>5. CASE CancelSend(b)
      BY <2>5 DEF CancelSend, DismissCashBill, Cancel
  <2> QED
      BY <1>4, <2>1, <2>2, <2>3, <2>4, <2>5 DEF User
<1>5. ASSUME NEW b \in Bills, Arrive(b) PROVE TypeOK'
  <2>1. CASE Give(b)
      BY <2>1 DEF Give, ShowCashBill
  <2>2. CASE Grabbed(b)
      BY <2>2 DEF Grabbed, ShowCashBill
  <2>3. CASE Claimed(b)
      BY <2>3 DEF Claimed, ShowCashBill
  <2> QED
      BY <1>5, <2>1, <2>2, <2>3 DEF Arrive
<1>6. ASSUME NEW b \in Bills, Server(b) PROVE TypeOK'
  <2>1. CASE AcceptTransfer(b)
      BY <2>1 DEF AcceptTransfer, ServerStep
  <2>2. CASE AcceptLink(b)
      BY <2>2 DEF AcceptLink, ServerStep
  <2>3. CASE VoidLink(b)
      BY <2>3 DEF VoidLink, ServerStep
  <2>4. CASE CollectLink(b)
      BY <2>4 DEF CollectLink, ServerStep
  <2> QED
      BY <1>6, <2>1, <2>2, <2>3, <2>4 DEF Server
<1>7. ASSUME NEW b \in Bills, GrabRequested(b) PROVE TypeOK'
    BY <1>7 DEF GrabRequested, OpStep
<1>8. ASSUME NEW b \in Bills, ShowValuation(b) PROVE TypeOK'
    BY <1>8 DEF ShowValuation
<1>9. ASSUME Environment PROVE TypeOK'
  <2>1. CASE UserDismisses
      BY <2>1 DEF UserDismisses, DismissCashBill, Cancel
  <2>2. CASE DidEnterBackground
      BY <2>2 DEF DidEnterBackground, DismissCashBill, Cancel
  <2>3. CASE DialogDismissed
      BY <2>3 DEF DialogDismissed
  <2>4. CASE StartGive
      BY <2>4 DEF StartGive
  <2>5. CASE GiveRefused
      BY <2>5 DEF GiveRefused
  <2>6. CASE StartScan
      BY <2>6 DEF StartScan
  <2>7. CASE GrabFailed
    <3>1. ErrorDialog \in Dialogs
        OBVIOUS
    <3> QED
        BY <2>7, <3>1 DEF GrabFailed
  <2>8. CASE OpenCashLink
      BY <2>8 DEF OpenCashLink
  <2>9. CASE NotClaimed
      BY <2>9 DEF NotClaimed
  <2>10. CASE CollectOwn
      BY <2>10 DEF CollectOwn
  <2>11. CASE BeginTip
      BY <2>11 DEF BeginTip
  <2>12. CASE PresentTip
      BY <2>12 DEF PresentTip
  <2>13. CASE TipNotAvailable
      BY <2>13 DEF TipNotAvailable
  <2>14. CASE EndTip
      BY <2>14 DEF EndTip, DismissCashBill, Cancel
  <2> QED
      BY <1>9, <2>1, <2>2, <2>3, <2>4, <2>5, <2>6, <2>7, <2>8, <2>9, <2>10,
          <2>11, <2>12, <2>13, <2>14 DEF Environment
<1>10. CASE UNCHANGED vars
    BY <1>10
<1> QED
    BY <1>1, <1>2, <1>3, <1>4, <1>5, <1>6, <1>7, <1>8, <1>9, <1>10 DEF Next

\* Every variable keeps its type, for any set of bills: the values by which
\* Session, its operations and the link flow are described are all there are.
THEOREM TypeCorrect == Spec => []TypeOK
<1>1. NoDialog \in Dialogs
    BY DEF NoDialog, Dialogs
<1>2. ASSUME Init PROVE TypeOK
  <2>1. op \in [Bills -> OpStates]
      BY <1>2 DEF Init, OpStates
  <2>2. link \in [Bills -> LinkStates] /\ intent \in [Bills -> Intents]
      BY <1>2 DEF Init, LinkStates, Intents
  <2>3. /\ cancelled \in [Bills -> BOOLEAN]
        /\ ignoresStream \in [Bills -> BOOLEAN]
        /\ offered \in [Bills -> BOOLEAN] /\ announced \in [Bills -> Nat]
      BY <1>2 DEF Init
  <2> QED
      BY <1>1, <1>2, <2>1, <2>2, <2>3 DEF Init, TypeOK
<1> QED
    BY <1>2, TypeNext, PTL DEF Spec

\* A step that answers the question about a link takes its dialog down.
LEMMA QuestionNext == TypeOK /\ QuestionIsOpen /\ [Next]_vars => QuestionIsOpen'
<1> SUFFICES ASSUME TypeOK, QuestionIsOpen, [Next]_vars
             PROVE  QuestionIsOpen'
    OBVIOUS
<1> USE DEF vars, screenVars, opVars, linkVars, incomingVars, serverVars,
        TypeOK, Dialogs, DialogFor, NoDialog, ErrorDialog, QuestionIsOpen
<1>1. ASSUME NEW b \in Bills, Run(b) PROVE QuestionIsOpen'
    BY <1>1 DEF Run, Start, MissingMintMetadata, Resolved, Advertised,
        AdvertiseFailed, StreamClosed, GrabRejected, TransferSubmitted,
        TransferAcknowledged, TransferFailed, Settled, PollFailed, OpStep,
        CheckedFailure
<1>2. ASSUME NEW b \in Bills, Complete(b) PROVE QuestionIsOpen'
  <2>1. CASE OnSettled(b)
      BY <2>1 DEF OnSettled, DismissCashBill, Cancel
  <2>2. CASE OnCancelled(b)
      BY <2>2 DEF OnCancelled
  <2>3. CASE OnFailed(b)
      BY <2>3 DEF OnFailed, DismissCashBill, Cancel
  <2> QED
      BY <1>2, <2>1, <2>2, <2>3 DEF Complete
<1>3. ASSUME NEW b \in Bills, LinkStep(b) PROVE QuestionIsOpen'
  <2>1. CASE LinkCreated(b)
    <3>1. CASE StillCurrent(b)
        BY <2>1, <3>1 DEF LinkCreated
    <3>2. CASE ~StillCurrent(b)
        BY <2>1, <3>2 DEF LinkCreated
    <3> QED
        BY <3>1, <3>2
  <2>2. CASE LinkFailed(b)
      BY <2>2 DEF LinkFailed
  <2>3. CASE CompleteSend(b)
      BY <2>3 DEF CompleteSend, DismissCashBill, Cancel
  <2>4. CASE VoidAnswered(b)
      BY <2>4 DEF VoidAnswered
  <2> QED
      BY <1>3, <2>1, <2>2, <2>3, <2>4 DEF LinkStep
<1>4. ASSUME NEW b \in Bills, User(b) PROVE QuestionIsOpen'
  <2>1. CASE SendAsLink(b)
      BY <2>1 DEF SendAsLink, Covered
  <2>2. CASE ShareSheetClosed(b)
      BY <2>2 DEF ShareSheetClosed
  <2>3. CASE ConfirmSent(b)
      BY <2>3 DEF ConfirmSent
  <2>4. CASE Reconsider(b)
      BY <2>4 DEF Reconsider
  <2>5. CASE CancelSend(b)
      BY <2>5 DEF CancelSend, DismissCashBill, Cancel
  <2> QED
      BY <1>4, <2>1, <2>2, <2>3, <2>4, <2>5 DEF User
<1>5. ASSUME NEW b \in Bills, Arrive(b) PROVE QuestionIsOpen'
  <2>1. CASE Give(b)
      BY <2>1 DEF Give, ShowCashBill
  <2>2. CASE Grabbed(b)
      BY <2>2 DEF Grabbed, ShowCashBill
  <2>3. CASE Claimed(b)
      BY <2>3 DEF Claimed, ShowCashBill
  <2> QED
      BY <1>5, <2>1, <2>2, <2>3 DEF Arrive
<1>6. ASSUME NEW b \in Bills, Server(b) PROVE QuestionIsOpen'
  <2>1. CASE AcceptTransfer(b)
      BY <2>1 DEF AcceptTransfer, ServerStep
  <2>2. CASE AcceptLink(b)
      BY <2>2 DEF AcceptLink, ServerStep
  <2>3. CASE VoidLink(b)
      BY <2>3 DEF VoidLink, ServerStep
  <2>4. CASE CollectLink(b)
      BY <2>4 DEF CollectLink, ServerStep
  <2> QED
      BY <1>6, <2>1, <2>2, <2>3, <2>4 DEF Server
<1>7. ASSUME NEW b \in Bills, GrabRequested(b) PROVE QuestionIsOpen'
    BY <1>7 DEF GrabRequested, OpStep
<1>8. ASSUME NEW b \in Bills, ShowValuation(b) PROVE QuestionIsOpen'
    BY <1>8 DEF ShowValuation
<1>9. ASSUME Environment PROVE QuestionIsOpen'
  <2>1. CASE UserDismisses
      BY <2>1 DEF UserDismisses, DismissCashBill, Cancel
  <2>2. CASE DidEnterBackground
      BY <2>2 DEF DidEnterBackground, DismissCashBill, Cancel
  <2>3. CASE DialogDismissed
      BY <2>3 DEF DialogDismissed
  <2>4. CASE GrabFailed
      BY <2>4 DEF GrabFailed
  <2>5. CASE NotClaimed
      BY <2>5 DEF NotClaimed
  <2>6. CASE CollectOwn
      BY <2>6 DEF CollectOwn
  <2>7. CASE EndTip
      BY <2>7 DEF EndTip, DismissCashBill, Cancel
  <2>8. CASE \/ StartGive \/ GiveRefused \/ StartScan \/ OpenCashLink
             \/ BeginTip \/ PresentTip \/ TipNotAvailable
      BY <2>8 DEF StartGive, GiveRefused, StartScan, OpenCashLink, BeginTip,
          PresentTip, TipNotAvailable
  <2> QED
      BY <1>9, <2>1, <2>2, <2>3, <2>4, <2>5, <2>6, <2>7, <2>8 DEF Environment
<1>10. CASE UNCHANGED vars
    BY <1>10
<1> QED
    BY <1>1, <1>2, <1>3, <1>4, <1>5, <1>6, <1>7, <1>8, <1>9, <1>10 DEF Next

\* The "Did You Send The Link?" dialogs are only up for a link that waits for
\* their answer, whatever else writes the one dialogItem of the session.
THEOREM QuestionCorrect == Spec => []QuestionIsOpen
<1>1. Init => QuestionIsOpen
    BY DEF Init, QuestionIsOpen, NoDialog
<1> QED
    BY <1>1, QuestionNext, TypeCorrect, PTL DEF Spec

\* No step parts the bill on screen from the stored operation, or lets the
\* stored operation close or be cancelled without dropping it.
LEMMA ScreenNext ==
    TypeOK /\ QuestionIsOpen /\ ScreenInv /\ [Next]_vars
        => ScreenInv'
<1> SUFFICES ASSUME TypeOK, QuestionIsOpen, ScreenInv, [Next]_vars
             PROVE  ScreenInv'
    OBVIOUS
<1> USE BillsAssumption
        DEF vars, screenVars, opVars, linkVars, incomingVars, serverVars,
            TypeOK, ScreenInv, NewIsUntouched, StoredIsLive, ShownIsStored
<1>1. ASSUME NEW b \in Bills, Run(b) PROVE ScreenInv'
  <2>1. CASE Start(b)
      BY <2>1 DEF Start, OpStep
  <2>2. CASE MissingMintMetadata(b)
      BY <2>2 DEF MissingMintMetadata, OpStep
  <2>3. CASE Resolved(b)
      BY <2>3 DEF Resolved, OpStep
  <2>4. CASE Advertised(b)
      BY <2>4 DEF Advertised, OpStep
  <2>5. CASE AdvertiseFailed(b)
      BY <2>5 DEF AdvertiseFailed, OpStep, CheckedFailure
  <2>6. CASE StreamClosed(b)
      BY <2>6 DEF StreamClosed, OpStep, CheckedFailure
  <2>7. CASE GrabRejected(b)
      BY <2>7 DEF GrabRejected, OpStep
  <2>8. CASE TransferSubmitted(b)
      BY <2>8 DEF TransferSubmitted, OpStep
  <2>9. CASE TransferAcknowledged(b)
      BY <2>9 DEF TransferAcknowledged, OpStep
  <2>10. CASE TransferFailed(b)
      BY <2>10 DEF TransferFailed, OpStep, CheckedFailure
  <2>11. CASE Settled(b)
      BY <2>11 DEF Settled, OpStep
  <2>12. CASE PollFailed(b)
      BY <2>12 DEF PollFailed, OpStep, CheckedFailure
  <2> QED
      BY <1>1, <2>1, <2>2, <2>3, <2>4, <2>5, <2>6, <2>7, <2>8, <2>9, <2>10,
          <2>11, <2>12 DEF Run
<1>2. ASSUME NEW b \in Bills, Complete(b) PROVE ScreenInv'
  <2>1. CASE OnSettled(b)
      BY <2>1 DEF OnSettled, DismissCashBill, Cancel
  <2>2. CASE OnCancelled(b)
      BY <2>2 DEF OnCancelled
  <2>3. CASE OnFailed(b)
      BY <2>3 DEF OnFailed, DismissCashBill, Cancel
  <2> QED
      BY <1>2, <2>1, <2>2, <2>3 DEF Complete
<1>3. ASSUME NEW b \in Bills, LinkStep(b) PROVE ScreenInv'
  <2>1. CASE LinkCreated(b)
      BY <2>1 DEF LinkCreated
  <2>2. CASE LinkFailed(b)
      BY <2>2 DEF LinkFailed
  <2>3. CASE CompleteSend(b)
      BY <2>3 DEF CompleteSend, DismissCashBill, Cancel
  <2>4. CASE VoidAnswered(b)
      BY <2>4 DEF VoidAnswered
  <2> QED
      BY <1>3, <2>1, <2>2, <2>3, <2>4 DEF LinkStep
<1>4. ASSUME NEW b \in Bills, User(b) PROVE ScreenInv'
  <2>1. CASE SendAsLink(b)
      BY <2>1 DEF SendAsLink
  <2>2. CASE ShareSheetClosed(b)
      BY <2>2 DEF ShareSheetClosed
  <2>3. CASE ConfirmSent(b)
      BY <2>3 DEF ConfirmSent, QuestionIsOpen, DialogFor
  <2>4. CASE Reconsider(b)
      BY <2>4 DEF Reconsider
  <2>5. CASE CancelSend(b)
      BY <2>5 DEF CancelSend, DismissCashBill, Cancel, QuestionIsOpen, DialogFor
  <2> QED
      BY <1>4, <2>1, <2>2, <2>3, <2>4, <2>5 DEF User
<1>5. ASSUME NEW b \in Bills, Arrive(b) PROVE ScreenInv'
  <2>1. CASE Give(b)
      BY <2>1 DEF Give, ShowCashBill
  <2>2. CASE Grabbed(b)
      BY <2>2 DEF Grabbed, ShowCashBill
  <2>3. CASE Claimed(b)
      BY <2>3 DEF Claimed, ShowCashBill
  <2> QED
      BY <1>5, <2>1, <2>2, <2>3 DEF Arrive
<1>6. ASSUME NEW b \in Bills, Server(b) PROVE ScreenInv'
  <2>1. CASE AcceptLink(b)
      BY <2>1 DEF AcceptLink, ServerStep
  <2>2. CASE AcceptTransfer(b) \/ VoidLink(b) \/ CollectLink(b)
      BY <2>2 DEF AcceptTransfer, VoidLink, CollectLink, ServerStep
  <2> QED
      BY <1>6, <2>1, <2>2 DEF Server
<1>7. ASSUME NEW b \in Bills, GrabRequested(b) PROVE ScreenInv'
    BY <1>7 DEF GrabRequested, OpStep
<1>8. ASSUME NEW b \in Bills, ShowValuation(b) PROVE ScreenInv'
    BY <1>8 DEF ShowValuation
<1>9. ASSUME Environment PROVE ScreenInv'
  <2>1. CASE UserDismisses
      BY <2>1 DEF UserDismisses, DismissCashBill, Cancel
  <2>2. CASE DidEnterBackground
      BY <2>2 DEF DidEnterBackground, DismissCashBill, Cancel
  <2>3. CASE PresentTip
      BY <2>3 DEF PresentTip
  <2>4. CASE EndTip
      BY <2>4 DEF EndTip, DismissCashBill, Cancel
  <2>5. CASE \/ DialogDismissed \/ StartGive \/ GiveRefused \/ StartScan
             \/ GrabFailed \/ OpenCashLink \/ NotClaimed \/ CollectOwn
             \/ BeginTip \/ TipNotAvailable
      BY <2>5 DEF DialogDismissed, StartGive, GiveRefused, StartScan,
          GrabFailed, OpenCashLink, NotClaimed, CollectOwn, BeginTip,
          TipNotAvailable
  <2> QED
      BY <1>9, <2>1, <2>2, <2>3, <2>4, <2>5 DEF Environment
<1>10. CASE UNCHANGED vars
    BY <1>10
<1> QED
    BY <1>1, <1>2, <1>3, <1>4, <1>5, <1>6, <1>7, <1>8, <1>9, <1>10 DEF Next

\* A cash bill on screen is backed by the stored, uncancelled operation that
\* still has an outcome to report.  BillOnScreenIsLive speaks of the bill on
\* screen only; what makes it inductive is that the stored operation is live
\* even while the tipcard covers it.
THEOREM ScreenCorrect == Spec => [](ScreenInv /\ BillOnScreenIsLive)
<1>1. Init => ScreenInv
    BY BillsAssumption
       DEF Init, ScreenInv, NewIsUntouched, StoredIsLive, ShownIsStored
<1>2. ScreenInv => BillOnScreenIsLive
    BY DEF ScreenInv, StoredIsLive, ShownIsStored, BillOnScreenIsLive
<1> QED
    BY <1>1, <1>2, ScreenNext, TypeCorrect, QuestionCorrect, PTL DEF Spec

\* A cash bill on screen is backed by a live operation.
THEOREM BillOnScreenCorrect == Spec => []BillOnScreenIsLive
    BY ScreenCorrect, PTL

\* The intent a bill's rendezvous key took decides which of its two flows can
\* go on, and the flow that announced it is over.
LEMMA MoneyNext ==
    TypeOK /\ QuestionIsOpen /\ ScreenInv /\ MoneyInv /\ [Next]_vars
        => MoneyInv'
<1> SUFFICES ASSUME TypeOK, QuestionIsOpen, ScreenInv, MoneyInv, [Next]_vars
             PROVE  MoneyInv'
    OBVIOUS
<1> USE BillsAssumption
        DEF vars, screenVars, opVars, linkVars, incomingVars, serverVars,
        TypeOK, MoneyInv, LinkIsFunded, OfferedTookIntent, GrabTookIntent,
        AnnouncedOnce, SentIsGone
<1>1. ASSUME NEW b \in Bills, Run(b) PROVE MoneyInv'
  <2>1. CASE TransferAcknowledged(b)
      BY <2>1 DEF TransferAcknowledged, OpStep
  <2>2. CASE TransferFailed(b)
      BY <2>2 DEF TransferFailed, OpStep, CheckedFailure
  <2>3. CASE Settled(b)
      BY <2>3 DEF Settled, OpStep
  <2>4. CASE PollFailed(b)
      BY <2>4 DEF PollFailed, OpStep, CheckedFailure
  <2>5. CASE \/ Start(b) \/ MissingMintMetadata(b) \/ Resolved(b)
             \/ Advertised(b) \/ AdvertiseFailed(b) \/ StreamClosed(b)
             \/ GrabRejected(b) \/ TransferSubmitted(b)
      BY <2>5 DEF Start, MissingMintMetadata, Resolved, Advertised,
          AdvertiseFailed, StreamClosed, GrabRejected, TransferSubmitted,
          OpStep, CheckedFailure
  <2> QED
      BY <1>1, <2>1, <2>2, <2>3, <2>4, <2>5 DEF Run
<1>2. ASSUME NEW b \in Bills, Complete(b) PROVE MoneyInv'
  <2>1. CASE OnSettled(b)
      BY <2>1 DEF OnSettled, DismissCashBill
  <2>2. CASE OnCancelled(b)
      BY <2>2 DEF OnCancelled
  <2>3. CASE OnFailed(b)
      BY <2>3 DEF OnFailed, DismissCashBill
  <2> QED
      BY <1>2, <2>1, <2>2, <2>3 DEF Complete
<1>3. ASSUME NEW b \in Bills, LinkStep(b) PROVE MoneyInv'
  <2>1. CASE LinkCreated(b)
      BY <2>1 DEF LinkCreated
  <2>2. CASE LinkFailed(b)
      BY <2>2 DEF LinkFailed
  <2>3. CASE CompleteSend(b)
      BY <2>3 DEF CompleteSend, DismissCashBill
  <2>4. CASE VoidAnswered(b)
      BY <2>4 DEF VoidAnswered
  <2> QED
      BY <1>3, <2>1, <2>2, <2>3, <2>4 DEF LinkStep
<1>4. ASSUME NEW b \in Bills, User(b) PROVE MoneyInv'
  <2>1. CASE SendAsLink(b)
      BY <2>1 DEF SendAsLink, ScreenInv, ShownIsStored
  <2>2. CASE ShareSheetClosed(b)
      BY <2>2 DEF ShareSheetClosed
  <2>3. CASE ConfirmSent(b)
      BY <2>3 DEF ConfirmSent, QuestionIsOpen, DialogFor
  <2>4. CASE Reconsider(b)
      BY <2>4 DEF Reconsider
  <2>5. CASE CancelSend(b)
      BY <2>5 DEF CancelSend, DismissCashBill, Cancel, QuestionIsOpen, DialogFor
  <2> QED
      BY <1>4, <2>1, <2>2, <2>3, <2>4, <2>5 DEF User
<1>5. ASSUME NEW b \in Bills, Arrive(b) PROVE MoneyInv'
  <2>1. CASE Give(b)
      BY <2>1 DEF Give, ShowCashBill, ScreenInv, NewIsUntouched
  <2>2. CASE Grabbed(b)
      BY <2>2 DEF Grabbed, ShowCashBill, ScreenInv, NewIsUntouched
  <2>3. CASE Claimed(b)
      BY <2>3 DEF Claimed, ShowCashBill, ScreenInv, NewIsUntouched
  <2> QED
      BY <1>5, <2>1, <2>2, <2>3 DEF Arrive
<1>6. ASSUME NEW b \in Bills, Server(b) PROVE MoneyInv'
  <2>1. CASE AcceptTransfer(b)
      BY <2>1 DEF AcceptTransfer, ServerStep
  <2>2. CASE AcceptLink(b)
      BY <2>2 DEF AcceptLink, ServerStep
  <2>3. CASE VoidLink(b)
      BY <2>3 DEF VoidLink, ServerStep
  <2>4. CASE CollectLink(b)
      BY <2>4 DEF CollectLink, ServerStep
  <2> QED
      BY <1>6, <2>1, <2>2, <2>3, <2>4 DEF Server
<1>7. ASSUME NEW b \in Bills, GrabRequested(b) PROVE MoneyInv'
    BY <1>7 DEF GrabRequested, OpStep
<1>8. ASSUME NEW b \in Bills, ShowValuation(b) PROVE MoneyInv'
    BY <1>8 DEF ShowValuation
<1>9. ASSUME Environment PROVE MoneyInv'
  <2>1. CASE UserDismisses
      BY <2>1 DEF UserDismisses, DismissCashBill, Cancel
  <2>2. CASE DidEnterBackground
      BY <2>2 DEF DidEnterBackground, DismissCashBill, Cancel
  <2>3. CASE PresentTip
      BY <2>3 DEF PresentTip
  <2>4. CASE EndTip
      BY <2>4 DEF EndTip, DismissCashBill, Cancel
  <2>5. CASE \/ DialogDismissed \/ StartGive \/ GiveRefused \/ StartScan
             \/ GrabFailed \/ OpenCashLink \/ NotClaimed \/ CollectOwn
             \/ BeginTip \/ TipNotAvailable
      BY <2>5 DEF DialogDismissed, StartGive, GiveRefused, StartScan,
          GrabFailed, OpenCashLink, NotClaimed, CollectOwn, BeginTip,
          TipNotAvailable
  <2> QED
      BY <1>9, <2>1, <2>2, <2>3, <2>4, <2>5 DEF Environment
<1>10. CASE UNCHANGED vars
    BY <1>10
<1> QED
    BY <1>1, <1>2, <1>3, <1>4, <1>5, <1>6, <1>7, <1>8, <1>9, <1>10 DEF Next

\* What one bill owes to its single intent id: its link and its grab exclude
\* each other, and what its toast announces happened once.
THEOREM MoneyCorrect ==
    Spec => [](MoneyInv /\ ToastTellsTheTruth /\ NeverSharedAndSettled)
<1>1. Init => MoneyInv
    BY BillsAssumption
       DEF Init, MoneyInv, LinkIsFunded, OfferedTookIntent, GrabTookIntent,
           AnnouncedOnce, SentIsGone
<1>2. MoneyInv => ToastTellsTheTruth
    BY DEF MoneyInv, AnnouncedOnce, ToastTellsTheTruth
<1>3. MoneyInv => NeverSharedAndSettled
    BY DEF MoneyInv, OfferedTookIntent, GrabTookIntent, NeverSharedAndSettled
<1> QED
    BY <1>1, <1>2, <1>3, MoneyNext, TypeCorrect, QuestionCorrect,
       ScreenCorrect, PTL DEF Spec

\* The "-amount" toast is never wrong and never repeated.
THEOREM ToastCorrect == Spec => []ToastTellsTheTruth
    BY MoneyCorrect, PTL

\* A bill whose link was offered is never settled to a grabber as well.
THEOREM SharedOrSettled == Spec => []NeverSharedAndSettled
    BY MoneyCorrect, PTL

-----------------------------------------------------------------------------
(* The toasts.                                                             *)

\* A non-empty queue has an oldest toast, and popping it leaves a queue.
LEMMA PopKeepsType ==
    ASSUME NEW q \in Seq(Toast), q # <<>>
    PROVE  Oldest(q) \in Toast /\ Popped(q) \in Seq(Toast)
<1>1. Len(q) \in 1..Len(q)
    OBVIOUS
<1>2. Len(q) - 1 \in 0..Len(q)
    BY <1>1
<1> QED
    BY <1>1, <1>2 DEF Oldest, Popped

\* insert leaves a queue, and never an empty one.
LEMMA InsertKeepsType ==
    ASSUME NEW q \in Seq(Toast), NEW t \in Toast
    PROVE  Inserted(t, q) \in Seq(Toast) /\ Inserted(t, q) # <<>>
    BY DEF Inserted

\* Every step keeps the variables in their types.
LEMMA ToastsTypeNext == ToastsTypeOK /\ [ToastsNext]_toastVars => ToastsTypeOK'
<1> SUFFICES ASSUME ToastsTypeOK, [ToastsNext]_toastVars PROVE ToastsTypeOK'
    OBVIOUS
<1> USE ToastsAssumption
        DEF ToastsTypeOK, ConsumerState, Idle, Waiting, SettleTime, ShowTime, GapTime
<1>1. ASSUME NEW a \in Amounts, NEW d \in BOOLEAN, Enqueue(a, d)
      PROVE  queue' \in Seq(Toast) /\ enqueued' \in 0..MaxToasts
  <2>1. enqueued' \in 1..MaxToasts
      BY <1>1 DEF Enqueue
  <2>2. [number |-> enqueued', amount |-> a, isDeposit |-> d] \in Toast
      BY <2>1 DEF Toast
  <2> QED
      BY <1>1, <2>1, <2>2, InsertKeepsType DEF Enqueue
<1>0. ASSUME NEW q, ConsumeToast(q)
      PROVE  consumer' \in [Consumers -> ConsumerState]
  <2>1. CASE q = <<>>
      BY <1>0, <2>1 DEF ConsumeToast
  <2>2. CASE q # <<>>
      BY <1>0, <2>2 DEF ConsumeToast
  <2> QED
      BY <2>1, <2>2
<1>2. ASSUME NEW a \in Amounts, ShowReceivedBill(a) PROVE ToastsTypeOK'
    BY <1>1, <1>2 DEF ShowReceivedBill
<1>3. ASSUME NEW a \in Amounts, Spent(a) PROVE ToastsTypeOK'
    BY <1>1, <1>0, <1>3 DEF Spent
<1>4. CASE ShowBill
    BY <1>4 DEF ShowBill
<1>5. CASE Dismiss
    BY <1>0, <1>5 DEF Dismiss
<1>6. CASE Tick
  <2>1. ASSUME NEW c \in Consumers PROVE consumer'[c] \in ConsumerState
      BY <1>6 DEF Tick, ConsumerState
  <2> QED
      BY <1>6, <2>1 DEF Tick, ConsumerState
<1>7. ASSUME NEW c \in Consumers, Consume(c) PROVE ToastsTypeOK'
  <2>1. CASE Leave(c)
      BY <2>1 DEF Leave
  <2>2. CASE Show(c)
      BY <2>2, PopKeepsType DEF Show
  <2>3. CASE Clear(c)
      BY <2>3 DEF Clear
  <2>4. CASE Resume(c)
      BY <2>4 DEF Resume
  <2> QED
      BY <1>7, <2>1, <2>2, <2>3, <2>4 DEF Consume
<1>8. CASE UNCHANGED toastVars
    BY <1>8 DEF toastVars
<1> QED
    BY <1>2, <1>3, <1>4, <1>5, <1>6, <1>7, <1>8 DEF ToastsNext

\* Toasts, consumers and the visible toast keep their types, for any bounds.
THEOREM ToastsTypeCorrect == ToastsSpec => []ToastsTypeOK
<1>1. ASSUME ToastsInit PROVE ToastsTypeOK
  <2>1. queue \in Seq(Toast) /\ enqueued \in 0..MaxToasts
      BY <1>1, ToastsAssumption DEF ToastsInit
  <2>2. consumer \in [Consumers -> ConsumerState]
      BY <1>1 DEF ToastsInit, ConsumerState, Idle, ShowTime
  <2> QED
      BY <1>1, <2>1, <2>2 DEF ToastsInit, ToastsTypeOK
<1> QED
    BY <1>1, ToastsTypeNext, PTL DEF ToastsSpec

\* A step that takes the bill down or ends a consumer leaves another consumer
\* running if a toast is queued.
LEMMA StrandedNext ==
    ToastsTypeOK /\ NoToastStranded /\ [ToastsNext]_toastVars => NoToastStranded'
<1> SUFFICES ASSUME ToastsTypeOK, NoToastStranded, [ToastsNext]_toastVars
             PROVE  NoToastStranded'
    OBVIOUS
<1> USE DEF ToastsTypeOK, NoToastStranded, Idle, Waiting
<1>1. ASSUME NEW q, ConsumeToast(q), q # <<>>
      PROVE  \E c \in Consumers : consumer'[c].at # "idle"
  <2>1. PICK c \in Consumers :
            consumer' = [consumer EXCEPT ![c] = Waiting("settling", SettleTime)]
      BY <1>1 DEF ConsumeToast
  <2>2. consumer'[c] = Waiting("settling", SettleTime)
      BY <2>1
  <2> QED
      BY <2>2
<1>2. ASSUME NEW a \in Amounts, ShowReceivedBill(a) PROVE NoToastStranded'
    BY <1>2 DEF ShowReceivedBill
<1>3. ASSUME NEW a \in Amounts, Spent(a) PROVE NoToastStranded'
    BY <1>1, <1>3 DEF Spent
<1>4. CASE ShowBill
    BY <1>4 DEF ShowBill
<1>5. CASE Dismiss
    BY <1>1, <1>5 DEF Dismiss
<1>6. CASE Tick
  <2>1. ASSUME NEW c \in Consumers PROVE consumer'[c].at = consumer[c].at
      BY <1>6 DEF Tick
  <2> QED
      BY <1>6, <2>1 DEF Tick
<1>7. ASSUME NEW c \in Consumers, Consume(c) PROVE NoToastStranded'
  <2>1. CASE Leave(c)
      BY <2>1 DEF Leave
  <2>2. CASE Show(c)
      BY <2>2 DEF Show
  <2>3. CASE Clear(c)
      BY <2>3 DEF Clear
  <2>4. CASE Resume(c)
      BY <2>4 DEF Resume
  <2> QED
      BY <1>7, <2>1, <2>2, <2>3, <2>4 DEF Consume
<1>8. CASE UNCHANGED toastVars
    BY <1>8 DEF toastVars
<1> QED
    BY <1>2, <1>3, <1>4, <1>5, <1>6, <1>7, <1>8 DEF ToastsNext

\* No toast is forgotten, however the consumers that run side by side and the
\* bills that come and go interleave.
THEOREM NoToastForgotten == ToastsSpec => []NoToastStranded
<1>1. ToastsInit => NoToastStranded
    BY DEF ToastsInit, NoToastStranded
<1> QED
    BY <1>1, StrandedNext, ToastsTypeCorrect, PTL DEF ToastsSpec

-----------------------------------------------------------------------------
\* The queue is sorted, the newest toast first; none is newer than the last one
\* enqueued, and the visible one is older than all of them.
Sorted ==
    /\ \A i \in 1..Len(queue) : queue[i].number <= enqueued
    /\ \A i, j \in 1..Len(queue) : i < j => queue[j].number < queue[i].number
    /\ toast # NoToast =>
           /\ toast.number <= enqueued
           /\ \A i \in 1..Len(queue) : toast.number < queue[i].number

\* insert puts the new toast in front of the queue or of its tail.
LEMMA InsertedAt ==
    ASSUME NEW q \in Seq(Toast), NEW t \in Toast, NEW r, r = Inserted(t, q)
    PROVE  /\ Len(r) \in Nat /\ r[1] = t
           /\ \/ Len(r) = Len(q) + 1 /\ \A i \in 2..Len(r) : r[i] = q[i - 1]
              \/ Len(q) > 0 /\ Len(r) = Len(q) /\ \A i \in 2..Len(r) : r[i] = q[i]
<1>1. CASE q # <<>> /\ Negates(t, Head(q))
  <2>1. r = <<t>> \o Tail(q)
      BY <1>1 DEF Inserted
  <2>2. /\ Tail(q) \in Seq(Toast) /\ Len(Tail(q)) = Len(q) - 1
        /\ Len(q) \in Nat /\ Len(q) > 0
        /\ \A i \in 1..Len(Tail(q)) : Tail(q)[i] = q[i + 1]
      BY <1>1, HeadTailProperties, EmptySeq
  <2>3. Len(r) = Len(q) /\ r[1] = t /\ \A i \in 2..Len(q) : r[i] = Tail(q)[i - 1]
      BY <2>1, <2>2
  <2>4. ASSUME NEW i \in 2..Len(q) PROVE r[i] = q[i]
    <3>1. i - 1 \in 1..Len(Tail(q)) /\ (i - 1) + 1 = i
        BY <2>2
    <3> QED
        BY <2>2, <2>3, <3>1
  <2> QED
      BY <2>2, <2>3, <2>4
<1>2. CASE ~(q # <<>> /\ Negates(t, Head(q)))
  <2>1. r = <<t>> \o q
      BY <1>2 DEF Inserted
  <2> QED
      BY <2>1
<1> QED
    BY <1>1, <1>2

\* A toast that is enqueued is the newest.
LEMMA EnqueueSorts ==
    ASSUME ToastsTypeOK, Sorted, NEW a \in Amounts, NEW d \in BOOLEAN, Enqueue(a, d),
           toast' = toast
    PROVE  Sorted'
<1> DEFINE t == [number |-> enqueued', amount |-> a, isDeposit |-> d]
           r == queue'
<1>1. enqueued \in Nat /\ enqueued' = enqueued + 1 /\ enqueued' \in 1..MaxToasts
    BY ToastsAssumption DEF ToastsTypeOK, Enqueue
<1>2. t \in Toast /\ t.number = enqueued + 1 /\ r = Inserted(t, queue)
    BY <1>1 DEF Toast, Enqueue
<1>3. \A u \in Toast : u.number \in Nat
    BY ToastsAssumption DEF Toast
<1> HIDE DEF t, r
<1>4. queue \in Seq(Toast) /\ toast \in Toast \cup {NoToast} /\ Len(queue) \in Nat
    BY DEF ToastsTypeOK
<1>5. /\ \A i \in 1..Len(queue) : queue[i].number \in Nat
      /\ toast # NoToast => toast.number \in Nat
  <2>1. \A i \in 1..Len(queue) : queue[i] \in Toast
      BY <1>4
  <2> QED
      BY <1>3, <1>4, <2>1
<1>6. /\ Len(r) \in Nat /\ r[1] = t
      /\ \/ Len(r) = Len(queue) + 1 /\ \A i \in 2..Len(r) : r[i] = queue[i - 1]
         \/ Len(queue) > 0 /\ Len(r) = Len(queue) /\ \A i \in 2..Len(r) : r[i] = queue[i]
    BY <1>2, <1>4, InsertedAt
<1>7. \A i \in 2..Len(r) : \E k \in 1..Len(queue) : r[i] = queue[k]
    BY <1>4, <1>5, <1>6
<1>8. \A i, j \in 2..Len(r) : i < j => \E k, l \in 1..Len(queue) :
          k < l /\ r[i] = queue[k] /\ r[j] = queue[l]
  <2> SUFFICES ASSUME NEW i \in 2..Len(r), NEW j \in 2..Len(r), i < j
               PROVE  \E k, l \in 1..Len(queue) : k < l /\ r[i] = queue[k] /\ r[j] = queue[l]
      OBVIOUS
  <2>1. CASE Len(r) = Len(queue) + 1 /\ \A n \in 2..Len(r) : r[n] = queue[n - 1]
    <3>1. i - 1 \in 1..Len(queue) /\ j - 1 \in 1..Len(queue) /\ i - 1 < j - 1
        BY <1>4, <1>5, <1>6, <2>1
    <3> QED
        BY <2>1, <3>1
  <2>2. CASE Len(r) = Len(queue) /\ \A n \in 2..Len(r) : r[n] = queue[n]
      BY <1>4, <1>5, <1>6, <2>2
  <2> QED
      BY <1>6, <2>1, <2>2
<1>9. /\ \A i \in 1..Len(r) : i = 1 \/ i \in 2..Len(r)
      /\ \A k \in 1..Len(queue) : queue[k].number <= enqueued
    BY <1>6 DEF Sorted
<1>10. \A i \in 1..Len(r) : r[i].number <= enqueued'
  <2> SUFFICES ASSUME NEW i \in 1..Len(r) PROVE r[i].number <= enqueued'
      OBVIOUS
  <2>1. CASE i = 1
      BY <1>1, <1>2, <1>6, <2>1
  <2>2. CASE i \in 2..Len(r)
    <3>1. PICK k \in 1..Len(queue) : r[i] = queue[k]
        BY <1>7, <2>2
    <3> QED
        BY <1>1, <1>9, <1>5, <3>1
  <2> QED
      BY <1>9, <2>1, <2>2
<1>11. ASSUME NEW i \in 1..Len(r), NEW j \in 1..Len(r), i < j
       PROVE  r[j].number < r[i].number
  <2>1. j \in 2..Len(r)
      BY <1>6, <1>11
  <2>2. CASE i = 1
      BY <1>1, <1>2, <1>4, <1>5, <1>6, <1>7, <1>9, <2>1, <2>2
  <2>3. CASE i \in 2..Len(r)
      BY <1>8, <1>11, <2>1, <2>3 DEF Sorted
  <2> QED
      BY <1>9, <2>2, <2>3
<1>12. ASSUME toast # NoToast
       PROVE  toast.number <= enqueued' /\ \A i \in 1..Len(r) : toast.number < r[i].number
  <2>1. /\ toast.number \in Nat /\ toast.number <= enqueued
        /\ \A k \in 1..Len(queue) : toast.number < queue[k].number
      BY <1>5, <1>12 DEF Sorted
  <2>2. r[1].number = enqueued + 1
      BY <1>2, <1>6
  <2>3. ASSUME NEW i \in 1..Len(r) PROVE toast.number < r[i].number
    <3>1. CASE i = 1
        BY <1>1, <2>1, <2>2, <3>1
    <3>2. CASE i \in 2..Len(r)
      <4>1. PICK k \in 1..Len(queue) : r[i] = queue[k]
          BY <1>7, <3>2
      <4> QED
          BY <2>1, <4>1
    <3> QED
        BY <1>9, <3>1, <3>2
  <2> QED
      BY <1>1, <2>1, <2>3
<1> QED
    BY <1>10, <1>11, <1>12 DEF Sorted, r

\* What pop leaves stays where it was.
LEMMA PoppedAt ==
    ASSUME NEW q \in Seq(Toast), q # <<>>
    PROVE  /\ Len(Popped(q)) = Len(q) - 1
           /\ \A i \in 1..Len(Popped(q)) : Popped(q)[i] = q[i]
<1>1. Len(q) \in Nat /\ Len(q) > 0 /\ \A i \in 1..(Len(q) - 1) : q[i] \in Toast
    OBVIOUS
<1>2. ASSUME NEW n \in Nat, n = Len(q) - 1
      PROVE  /\ Len(SubSeq(q, 1, n)) = n
             /\ \A i \in 1..n : SubSeq(q, 1, n)[i] = q[i]
  <2>1. /\ Len(SubSeq(q, 1, n)) = IF 1 <= n THEN n - 1 + 1 ELSE 0
        /\ \A i \in 1..(n - 1 + 1) : SubSeq(q, 1, n)[i] = q[1 + i - 1]
      BY <1>1, <1>2, SubSeqProperties
  <2> QED
      BY <2>1
<1>3. Len(q) - 1 \in Nat
    BY <1>1
<1> QED
    BY <1>2, <1>3 DEF Popped

\* A toast that is shown is older than the ones that stay queued.
LEMMA ShowTakesOldest ==
    ASSUME ToastsTypeOK, Sorted, NEW c \in Consumers, Show(c)
    PROVE  /\ Sorted'
           /\ toast # NoToast => toast.number < toast'.number
           /\ \A i \in 1..Len(queue') : toast'.number < queue'[i].number
<1>1. /\ Len(queue) \in 1..Len(queue) /\ toast' = queue[Len(queue)]
      /\ queue' = SubSeq(queue, 1, Len(queue) - 1) /\ enqueued' = enqueued
    BY DEF ToastsTypeOK, Show, Oldest, Popped
<1>2. /\ Len(queue') = Len(queue) - 1
      /\ \A i \in 1..Len(queue') : queue'[i] = queue[i]
  <2>1. queue \in Seq(Toast) /\ queue # <<>> /\ queue' = Popped(queue)
      BY DEF ToastsTypeOK, Show
  <2> QED
      BY <2>1, PoppedAt
<1>3. \A i \in 1..Len(queue') : i \in 1..Len(queue) /\ i < Len(queue)
    BY <1>1, <1>2
<1> QED
    BY <1>1, <1>2, <1>3 DEF Sorted

LEMMA SortedNext == ToastsTypeOK /\ Sorted /\ [ToastsNext]_toastVars => Sorted'
<1> SUFFICES ASSUME ToastsTypeOK, Sorted, [ToastsNext]_toastVars PROVE Sorted'
    OBVIOUS
<1>1. ASSUME NEW a \in Amounts, ShowReceivedBill(a) PROVE Sorted'
    BY <1>1, EnqueueSorts DEF ShowReceivedBill
<1>2. ASSUME NEW a \in Amounts, Spent(a) PROVE Sorted'
    BY <1>2, EnqueueSorts DEF Spent
<1>3. ASSUME UNCHANGED <<queue, enqueued>>, toast' \in {toast, NoToast} PROVE Sorted'
    BY <1>3 DEF Sorted
<1>4. ASSUME NEW c \in Consumers, Consume(c) PROVE Sorted'
  <2>1. CASE Show(c)
      BY <2>1, ShowTakesOldest
  <2>2. CASE Leave(c) \/ Clear(c) \/ Resume(c)
      BY <1>3, <2>2 DEF Leave, Clear, Resume
  <2> QED
      BY <1>4, <2>1, <2>2 DEF Consume
<1>5. CASE ShowBill \/ Dismiss \/ Tick \/ UNCHANGED toastVars
    BY <1>3, <1>5 DEF ShowBill, Dismiss, Tick, toastVars
<1> QED
    BY <1>1, <1>2, <1>4, <1>5 DEF ToastsNext

\* Toasts go up oldest first, each once, however many consumers run side by side.
THEOREM ToastsInOrder == ToastsSpec => OldestFirst
<1>1. ToastsInit => Sorted
    BY DEF ToastsInit, Sorted
<1>2. ASSUME ToastsTypeOK, Sorted, [ToastsNext]_toastVars, toast' \notin {toast, NoToast}
      PROVE  /\ toast # NoToast => toast.number < toast'.number
             /\ \A i \in DOMAIN queue' : toast'.number < queue'[i].number
  <2>1. PICK c \in Consumers : Show(c)
      BY <1>2 DEF ToastsNext, ShowReceivedBill, Spent, ShowBill, Dismiss, Tick, toastVars, Consume,
                  Leave, Clear, Resume
  <2>2. DOMAIN queue' = 1..Len(queue')
      BY <1>2, ToastsTypeNext DEF ToastsTypeOK
  <2> QED
      BY <1>2, <2>1, <2>2, ShowTakesOldest
<1>3. ToastsTypeOK /\ Sorted /\ [ToastsNext]_toastVars =>
          [toast' \notin {toast, NoToast} =>
              /\ toast # NoToast => toast.number < toast'.number
              /\ \A i \in DOMAIN queue' : toast'.number < queue'[i].number]_toastVars
    BY <1>2
<1> QED
    BY <1>1, <1>3, SortedNext, ToastsTypeCorrect, PTL DEF ToastsSpec, OldestFirst

-----------------------------------------------------------------------------
(* Session as one actor.                                                   *)

WorthTypeOK == worth \in [Bills -> Amounts]

\* Every step of Session is one of the bill's or leaves the bill alone.
LEMMA BillPart == [SessionNext]_sessionVars => [Next]_vars
<1> SUFFICES ASSUME [SessionNext]_sessionVars PROVE [Next]_vars
    OBVIOUS
<1>1. CASE \E b \in Bills : ArriveToasting(b) \/ SpendToasting(b)
    BY <1>1 DEF ArriveToasting, SpendToasting, Arrive, Complete, LinkStep, Next
<1>2. CASE DismissToasting
    BY <1>2 DEF DismissToasting, Complete, User, Environment, Next
<1>3. CASE PresentTip
    BY <1>3 DEF Environment, Next
<1>4. CASE Elsewhere
    BY <1>4 DEF Elsewhere, Complete, LinkStep, User, Environment, Next
<1>5. CASE UNCHANGED vars
    BY <1>5
<1> QED
    BY <1>1, <1>2, <1>3, <1>4, <1>5 DEF SessionNext, sessionVars

\* It is also a step of the toasts, or leaves the toasts alone.
LEMMA ToastsPart == WorthTypeOK /\ [SessionNext]_sessionVars => [ToastsNext]_toastVars
<1> SUFFICES ASSUME WorthTypeOK, [SessionNext]_sessionVars
             PROVE  [ToastsNext]_toastVars
    OBVIOUS
<1>1. ASSUME CoverScreen PROVE [ToastsNext]_toastVars
    BY <1>1 DEF CoverScreen, ToastsNext
<1>2. ASSUME NEW b \in Bills, ArriveToasting(b) \/ SpendToasting(b)
      PROVE  [ToastsNext]_toastVars
  <2>1. worth[b] \in Amounts
      BY DEF WorthTypeOK
  <2> QED
      BY <1>1, <1>2, <2>1 DEF ArriveToasting, SpendToasting, ToastsNext
<1>3. CASE Dismiss \/ Tick \/ (\E c \in Consumers : Consume(c))
    BY <1>3 DEF ToastsNext
<1>4. CASE UNCHANGED toastVars
    BY <1>4
<1> QED
    BY <1>1, <1>2, <1>3, <1>4 DEF SessionNext, sessionVars

\* What is proved of the bill and what is proved of the toasts is true of the
\* one Session that does both: its steps are theirs, taken together.
THEOREM SessionComposes == SessionSpec => Spec /\ ToastsSpec /\ []WorthTypeOK
<1>1. SessionInit => Init /\ ToastsInit /\ WorthTypeOK
    BY DEF SessionInit, WorthTypeOK
<1>2. WorthTypeOK /\ [SessionNext]_sessionVars => WorthTypeOK'
    BY DEF WorthTypeOK, SessionNext, sessionVars
<1> QED
    BY <1>1, <1>2, BillPart, ToastsPart, PTL DEF SessionSpec, Spec, ToastsSpec

\* Only the steps that bring a bill up, take it down or show the tipcard write
\* billState.bill.
LEMMA ElsewhereKeepsShown == Elsewhere => UNCHANGED shown
<1> SUFFICES ASSUME Elsewhere PROVE UNCHANGED shown
    OBVIOUS
<1> USE DEF screenVars
<1>1. ASSUME NEW b \in Bills, Run(b) \/ GrabRequested(b) PROVE UNCHANGED shown
    BY <1>1 DEF Run, Start, MissingMintMetadata, Resolved, Advertised,
        AdvertiseFailed, StreamClosed, GrabRejected, TransferSubmitted,
        TransferAcknowledged, TransferFailed, Settled, PollFailed,
        GrabRequested, OpStep
<1>2. ASSUME NEW b \in Bills, OnCancelled(b) \/ ShowValuation(b)
      PROVE  UNCHANGED shown
    BY <1>2 DEF OnCancelled, ShowValuation
<1>3. ASSUME NEW b \in Bills,
             \/ LinkCreated(b) \/ LinkFailed(b) \/ VoidAnswered(b)
             \/ SendAsLink(b) \/ ShareSheetClosed(b) \/ ConfirmSent(b)
             \/ Reconsider(b)
      PROVE  UNCHANGED shown
    BY <1>3 DEF LinkCreated, LinkFailed, VoidAnswered, SendAsLink,
        ShareSheetClosed, ConfirmSent, Reconsider
<1>4. ASSUME NEW b \in Bills, Server(b) PROVE UNCHANGED shown
    BY <1>4 DEF Server, AcceptTransfer, AcceptLink, VoidLink, CollectLink,
        ServerStep
<1>5. CASE \/ DialogDismissed \/ StartGive \/ GiveRefused \/ StartScan
           \/ GrabFailed \/ OpenCashLink \/ NotClaimed \/ CollectOwn
           \/ BeginTip \/ TipNotAvailable
    BY <1>5 DEF DialogDismissed, StartGive, GiveRefused, StartScan, GrabFailed,
        OpenCashLink, NotClaimed, CollectOwn, BeginTip, TipNotAvailable
<1>6. CASE shown # Tipcard /\ EndTip
    BY <1>6 DEF EndTip
<1> QED
    BY <1>1, <1>2, <1>3, <1>4, <1>5, <1>6 DEF Elsewhere

LEMMA ShowingNext ==
    ShowingIsTheScreen /\ [SessionNext]_sessionVars => ShowingIsTheScreen'
<1> SUFFICES ASSUME ShowingIsTheScreen, [SessionNext]_sessionVars
             PROVE  ShowingIsTheScreen'
    OBVIOUS
<1> USE DEF ShowingIsTheScreen, IsShowingBill
<1>1. ASSUME CoverScreen PROVE showing' = TRUE
    BY <1>1 DEF CoverScreen, ShowBill, toastVars
<1>2. ASSUME NEW b \in Bills, ArriveToasting(b) PROVE ShowingIsTheScreen'
  <2>1. shown' = b /\ b # NoBill
      BY <1>2, BillsAssumption
         DEF ArriveToasting, Grabbed, Claimed, Give, ShowCashBill
  <2>2. showing' = TRUE
      BY <1>1, <1>2 DEF ArriveToasting, ShowReceivedBill
  <2> QED
      BY <2>1, <2>2
<1>3. ASSUME NEW b \in Bills, SpendToasting(b) PROVE ShowingIsTheScreen'
    BY <1>3 DEF SpendToasting, OnSettled, CompleteSend, DismissCashBill, Spent
<1>4. CASE DismissToasting /\ Dismiss
  <2>1. shown' = NoBill
      BY <1>4 DEF DismissToasting, OnFailed, CancelSend, UserDismisses,
          DidEnterBackground, EndTip, DismissCashBill
  <2> QED
      BY <1>4, <2>1 DEF Dismiss
<1>5. CASE PresentTip /\ CoverScreen
    BY <1>1, <1>5, BillsAssumption DEF PresentTip
<1>6. CASE Elsewhere /\ UNCHANGED toastVars
    BY <1>6, ElsewhereKeepsShown DEF toastVars
<1>7. CASE (Tick \/ \E c \in Consumers : Consume(c)) /\ UNCHANGED vars
    BY <1>7 DEF Tick, Consume, Leave, Show, Clear, Resume, vars, screenVars
<1>8. CASE UNCHANGED sessionVars
    BY <1>8 DEF sessionVars, vars, screenVars, toastVars
<1> QED
    BY <1>2, <1>3, <1>4, <1>5, <1>6, <1>7, <1>8 DEF SessionNext

\* The consumers' guard tells the truth, whatever brings bills up and takes
\* them down: no toast goes up over a bill or the tipcard for lack of a flag.
THEOREM ShowingCorrect == SessionSpec => []ShowingIsTheScreen
<1>1. SessionInit => ShowingIsTheScreen
    BY DEF SessionInit, Init, ToastsInit, ShowingIsTheScreen, IsShowingBill
<1> QED
    BY <1>1, ShowingNext, PTL DEF SessionSpec

\* A cleared screen shows the toasts that wait: some consumer is on its way.
THEOREM ClearScreenIsServed == SessionSpec => []ClearScreenHasAConsumer
<1>1. NoToastStranded /\ ShowingIsTheScreen => ClearScreenHasAConsumer
    BY DEF NoToastStranded, ShowingIsTheScreen, IsShowingBill,
           ClearScreenHasAConsumer
<1> QED
    BY <1>1, SessionComposes, ShowingCorrect, NoToastForgotten, PTL

-----------------------------------------------------------------------------
(* What a "-amount" toast says.                                            *)

\* The amounts of the bills that were announced.
Announced == {worth[b] : b \in {c \in Bills : announced[c] > 0}}

\* Every "-amount" toast, queued or up, is the announcement of a bill.
ToastsAnnounce ==
    /\ \A i \in 1..Len(queue) : queue[i].isDeposit \/ queue[i].amount \in Announced
    /\ toast # NoToast => toast.isDeposit \/ toast.amount \in Announced

\* What was announced stays announced.
LEMMA AnnouncedGrows ==
    TypeOK /\ [Next]_vars =>
        \A b \in Bills : announced[b] > 0 => announced'[b] > 0
<1> SUFFICES ASSUME TypeOK, [Next]_vars
             PROVE  \A b \in Bills : announced[b] > 0 => announced'[b] > 0
    OBVIOUS
<1>9. announced \in [Bills -> Nat]
    BY DEF TypeOK
<1> USE DEF linkVars
<1>1. ASSUME NEW b \in Bills, Run(b) \/ GrabRequested(b)
      PROVE  announced' = announced
    BY <1>1 DEF Run, Start, MissingMintMetadata, Resolved, Advertised,
        AdvertiseFailed, StreamClosed, GrabRejected, TransferSubmitted,
        TransferAcknowledged, TransferFailed, Settled, PollFailed,
        GrabRequested, OpStep
<1>2. ASSUME NEW b \in Bills, OnSettled(b) \/ CompleteSend(b)
      PROVE  announced' = [announced EXCEPT ![b] = @ + 1]
    BY <1>2 DEF OnSettled, CompleteSend
<1>3. ASSUME NEW b \in Bills,
             \/ OnCancelled(b) \/ OnFailed(b) \/ ShowValuation(b)
             \/ LinkCreated(b) \/ LinkFailed(b) \/ VoidAnswered(b)
      PROVE  announced' = announced
    BY <1>3 DEF OnCancelled, OnFailed, ShowValuation, LinkCreated, LinkFailed,
        VoidAnswered
<1>4. ASSUME NEW b \in Bills, User(b) PROVE announced' = announced
    BY <1>4 DEF User, SendAsLink, ShareSheetClosed, ConfirmSent, Reconsider,
        CancelSend
<1>5. ASSUME NEW b \in Bills, Server(b) PROVE announced' = announced
    BY <1>5 DEF Server, AcceptTransfer, AcceptLink, VoidLink, CollectLink,
        ServerStep
<1>6. ASSUME NEW b \in Bills, Arrive(b) PROVE announced' = announced
    BY <1>6 DEF Arrive, Grabbed, Claimed, Give, ShowCashBill
<1>7. ASSUME Environment PROVE announced' = announced
    BY <1>7 DEF Environment, UserDismisses, DidEnterBackground, DialogDismissed,
        StartGive, GiveRefused, StartScan, GrabFailed, OpenCashLink, NotClaimed,
        CollectOwn, BeginTip, PresentTip, TipNotAvailable, EndTip
<1>8. ASSUME UNCHANGED vars PROVE announced' = announced
    BY <1>8 DEF vars
<1>10. \/ announced' = announced
       \/ \E b \in Bills : announced' = [announced EXCEPT ![b] = @ + 1]
    BY <1>1, <1>2, <1>3, <1>4, <1>5, <1>6, <1>7, <1>8
       DEF Next, Complete, LinkStep
<1> QED
    BY <1>9, <1>10

\* After enqueue the queue holds the new toast and toasts it held before.
LEMMA EnqueueAdds ==
    ASSUME ToastsTypeOK, NEW a \in Amounts, NEW d \in BOOLEAN, Enqueue(a, d)
    PROVE  \A i \in 1..Len(queue') :
              \/ queue'[i].amount = a /\ queue'[i].isDeposit = d
              \/ \E k \in 1..Len(queue) : queue'[i] = queue[k]
<1> DEFINE t == [number |-> enqueued', amount |-> a, isDeposit |-> d]
           r == queue'
<1>1. t \in Toast /\ r = Inserted(t, queue)
    BY ToastsAssumption DEF ToastsTypeOK, Toast, Enqueue
<1>2. t.amount = a /\ t.isDeposit = d
    OBVIOUS
<1> HIDE DEF t, r
<1>3. queue \in Seq(Toast) /\ Len(queue) \in Nat
    BY DEF ToastsTypeOK
<1>4. /\ Len(r) \in Nat /\ r[1] = t
      /\ \/ Len(r) = Len(queue) + 1 /\ \A i \in 2..Len(r) : r[i] = queue[i - 1]
         \/ Len(queue) > 0 /\ Len(r) = Len(queue) /\ \A i \in 2..Len(r) : r[i] = queue[i]
    BY <1>1, <1>3, InsertedAt
<1>5. \A i \in 2..Len(r) : \E k \in 1..Len(queue) : r[i] = queue[k]
    BY <1>3, <1>4
<1>6. \A i \in 1..Len(r) : i = 1 \/ i \in 2..Len(r)
    BY <1>4
<1> QED
    BY <1>2, <1>4, <1>5, <1>6 DEF r

\* What is announced by the toasts there were stays announced; only a payment
\* just noticed adds a "-amount" toast, and it announces itself.
LEMMA AnnounceNext ==
    TypeOK /\ ToastsTypeOK /\ WorthTypeOK /\ ToastsAnnounce
        /\ [SessionNext]_sessionVars => ToastsAnnounce'
<1> SUFFICES ASSUME TypeOK, ToastsTypeOK, WorthTypeOK, ToastsAnnounce,
                    [SessionNext]_sessionVars
             PROVE  ToastsAnnounce'
    OBVIOUS
<1>1. worth' = worth /\ Announced \subseteq Announced'
  <2>1. \A b \in Bills : announced[b] > 0 => announced'[b] > 0
      BY AnnouncedGrows, BillPart
  <2>2. worth' = worth
      BY DEF SessionNext, sessionVars
  <2> QED
      BY <2>1, <2>2 DEF Announced
<1>2. /\ \A i \in 1..Len(queue) :
             queue[i].isDeposit \/ queue[i].amount \in Announced'
      /\ toast # NoToast => toast.isDeposit \/ toast.amount \in Announced'
    BY <1>1 DEF ToastsAnnounce
<1>3. ASSUME queue' = queue, toast' \in {toast, NoToast} PROVE ToastsAnnounce'
    BY <1>2, <1>3 DEF ToastsAnnounce
<1>4. ASSUME NEW b \in Bills, ArriveToasting(b) PROVE ToastsAnnounce'
  <2>1. CASE ShowReceivedBill(worth[b])
    <3>1. worth[b] \in Amounts /\ Enqueue(worth[b], TRUE) /\ toast' = toast
        BY <2>1 DEF WorthTypeOK, ShowReceivedBill
    <3>2. \A i \in 1..Len(queue') :
             queue'[i].isDeposit \/ \E k \in 1..Len(queue) : queue'[i] = queue[k]
        BY <3>1, EnqueueAdds
    <3> QED
        BY <1>2, <3>1, <3>2 DEF ToastsAnnounce
  <2>2. CASE CoverScreen
      BY <1>3, <2>2 DEF CoverScreen, ShowBill, toastVars
  <2> QED
      BY <1>4, <2>1, <2>2 DEF ArriveToasting
<1>5. ASSUME NEW b \in Bills, SpendToasting(b) PROVE ToastsAnnounce'
  <2>1. worth[b] \in Amounts /\ Enqueue(worth[b], FALSE) /\ toast' = toast
      BY <1>5 DEF WorthTypeOK, SpendToasting, Spent
  <2>2. announced \in [Bills -> Nat]
        /\ announced' = [announced EXCEPT ![b] = @ + 1]
      BY <1>5 DEF TypeOK, SpendToasting, OnSettled, CompleteSend
  <2>3. worth[b] \in Announced'
      BY <1>1, <2>2 DEF Announced
  <2>4. \A i \in 1..Len(queue') :
           \/ queue'[i].amount \in Announced'
           \/ \E k \in 1..Len(queue) : queue'[i] = queue[k]
      BY <2>1, <2>3, EnqueueAdds
  <2> QED
      BY <1>2, <2>1, <2>4 DEF ToastsAnnounce
<1>6. ASSUME NEW c \in Consumers, Show(c) PROVE ToastsAnnounce'
  <2>1. queue \in Seq(Toast) /\ queue # <<>> /\ queue' = Popped(queue)
        /\ toast' = queue[Len(queue)]
      BY <1>6 DEF ToastsTypeOK, Show, Oldest
  <2>2. Len(queue) \in 1..Len(queue) /\ \A i \in 1..Len(queue') :
            i \in 1..Len(queue) /\ queue'[i] = queue[i]
      BY <2>1, PoppedAt
  <2> QED
      BY <1>2, <2>1, <2>2 DEF ToastsAnnounce
<1>7. ASSUME NEW c \in Consumers, Consume(c) PROVE ToastsAnnounce'
    BY <1>3, <1>6, <1>7 DEF Consume, Leave, Clear, Resume
<1>8. CASE Dismiss \/ CoverScreen \/ Tick \/ UNCHANGED toastVars
    BY <1>3, <1>8 DEF Dismiss, CoverScreen, ShowBill, Tick, toastVars
<1> QED
    BY <1>4, <1>5, <1>7, <1>8 DEF SessionNext, sessionVars

\* A "-amount" toast, queued or up, tells of a payment of that amount that did
\* leave the wallet, however many bills, orphans and toasts there are by then.
THEOREM SpentToastsCorrect == SessionSpec => []SpentToastsAreTrue
<1>1. SessionInit => ToastsAnnounce
    BY DEF SessionInit, ToastsInit, ToastsAnnounce
<1>2. ToastTellsTheTruth /\ ToastsTypeOK /\ ToastsAnnounce => SpentToastsAreTrue
  <2> SUFFICES ASSUME ToastTellsTheTruth, ToastsTypeOK, ToastsAnnounce
               PROVE  SpentToastsAreTrue
      OBVIOUS
  <2>1. DOMAIN queue = 1..Len(queue)
      BY DEF ToastsTypeOK
  <2>2. Announced \subseteq AmountsLeft
      BY DEF Announced, AmountsLeft, ToastTellsTheTruth
  <2> QED
      BY <2>1, <2>2 DEF ToastsAnnounce, SpentToastsAreTrue
<1> QED
    BY <1>1, <1>2, AnnounceNext, SessionComposes, TypeCorrect,
       ToastsTypeCorrect, ToastCorrect, PTL DEF SessionSpec
=============================================================================
