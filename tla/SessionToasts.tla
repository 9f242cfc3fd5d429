---------------------------- MODULE SessionToasts ----------------------------
(***************************************************************************)
(* Session as one actor: what BillSession does to the bill on screen and   *)
(* what Toasts does to the queue happen in the same steps.  Session has no *)
(* flag of its own for a bill that covers the screen: isShowingBill reads  *)
(* billState, so `showing' has to follow `shown'.                          *)
(***************************************************************************)
EXTENDS BillSession, Toasts

VARIABLE worth  \* the exchangedFiat of each bill's BillDescription

sessionVars == <<vars, toastVars, worth>>

SessionInit == Init /\ ToastsInit /\ worth \in [Bills -> Amounts]

\* billState gets a bill, which may replace another, and no toast.
CoverScreen == ShowBill \/ (showing /\ UNCHANGED toastVars)

\* showCashBill, for bills received and bills to give.
ArriveToasting(b) ==
    \/ (Grabbed(b) \/ Claimed(b)) /\ ShowReceivedBill(worth[b])
    \/ Give(b) /\ CoverScreen

\* The two places that enqueue a "-amount" toast and dismiss what is on screen.
SpendToasting(b) ==
    (OnSettled(b) \/ CompleteSend(b)) /\ Spent(worth[b])

\* The other callers of dismissCashBill.
DismissToasting ==
    \/ \E b \in Bills : OnFailed(b) \/ CancelSend(b)
    \/ UserDismisses \/ DidEnterBackground
    \/ shown = Tipcard /\ EndTip

\* What leaves billState.bill and the toasts alone.
Elsewhere ==
    \/ \E b \in Bills :
        \/ Run(b) \/ GrabRequested(b) \/ OnCancelled(b) \/ ShowValuation(b)
        \/ LinkCreated(b) \/ LinkFailed(b) \/ VoidAnswered(b)
        \/ SendAsLink(b) \/ ShareSheetClosed(b) \/ ConfirmSent(b)
        \/ Reconsider(b) \/ Server(b)
    \/ DialogDismissed \/ StartGive \/ GiveRefused \/ StartScan \/ GrabFailed
    \/ OpenCashLink \/ NotClaimed \/ CollectOwn \/ BeginTip \/ TipNotAvailable
    \/ shown # Tipcard /\ EndTip

SessionNext ==
    /\ \/ \E b \in Bills : ArriveToasting(b) \/ SpendToasting(b)
       \/ DismissToasting /\ Dismiss
       \/ PresentTip /\ CoverScreen
       \/ Elsewhere /\ UNCHANGED toastVars
       \/ (Tick \/ \E c \in Consumers : Consume(c)) /\ UNCHANGED vars
    /\ UNCHANGED worth

SessionSpec == SessionInit /\ [][SessionNext]_sessionVars
-----------------------------------------------------------------------------
(* Properties.                                                             *)

\* isShowingBill, which the consumers ask before they show a toast, is true
\* whenever any bill or the tipcard is on screen, and only then.
ShowingIsTheScreen == showing <=> IsShowingBill

\* The amounts of the bills whose money left.
AmountsLeft ==
    {worth[b] : b \in {c \in Bills :
                          intent[c] \in {"transfer", "link", "collected"}}}

\* From the handler that noticed a payment to the screen, past negations and
\* consumers side by side: a "-amount" toast, queued or up, announces a bill of
\* this device, of that amount, whose money did leave.
SpentToastsAreTrue ==
    /\ \A i \in DOMAIN queue :
           ~queue[i].isDeposit => queue[i].amount \in AmountsLeft
    /\ toast # NoToast /\ ~toast.isDeposit => toast.amount \in AmountsLeft

\* While the screen is clear and a toast waits, somebody will show it.
ClearScreenHasAConsumer ==
    shown = NoBill /\ queue # <<>> =>
        \E c \in Consumers : consumer[c].at # "idle"
=============================================================================
