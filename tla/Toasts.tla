------------------------------- MODULE Toasts -------------------------------
(***************************************************************************)
(* The balance toasts of Session: the queue that showCashBill and          *)
(* SendCashOperation's owner fill, and the consumer tasks that             *)
(* dismissCashBill starts.  A consumer waits 500 ms, shows a toast for 3 s, *)
(* waits 1 s and starts over; nothing keeps a second one from running      *)
(* beside it.  A tick is 500 ms; a task may wake up late, never early.     *)
(***************************************************************************)
EXTENDS Naturals, Sequences

CONSTANTS
    Amounts,    \* the amounts toasts announce
    NoToast,    \* nil
    Consumers,  \* bound: the consumer tasks that may be pending at once
    MaxToasts   \* bound: the toasts ever enqueued

Toast == [number : 1..MaxToasts, amount : Amounts, isDeposit : BOOLEAN]

ASSUME ToastsAssumption == MaxToasts \in Nat /\ NoToast \notin Toast

VARIABLES
    queue,      \* ToastQueue.queue: the newest toast first
    toast,      \* Session.toast
    showing,    \* Session.isShowingBill
    consumer,   \* of each consumer task, the delay it is in and what is left
    enqueued    \* how many toasts were enqueued

toastVars == <<queue, toast, showing, consumer, enqueued>>

SettleTime == 1
ShowTime == 6
\* Mutant: the gap's milliseconds taken for seconds.
GapTimeInSeconds == 2000
GapTime == 2

Idle == [at |-> "idle", left |-> 0]
Waiting(stage, time) == [at |-> stage, left |-> time]

ConsumerState ==
    [at : {"idle", "settling", "displaying", "pausing"}, left : 0..ShowTime]

ToastsTypeOK ==
    /\ queue \in Seq(Toast)
    /\ toast \in Toast \cup {NoToast}
    /\ showing \in BOOLEAN
    /\ consumer \in [Consumers -> ConsumerState]
    /\ enqueued \in 0..MaxToasts

ToastsInit ==
    /\ queue = <<>>
    /\ toast = NoToast
    /\ showing = FALSE
    /\ consumer = [c \in Consumers |-> Idle]
    /\ enqueued = 0

-----------------------------------------------------------------------------
(* ToastQueue.                                                             *)

Negates(t, u) == t.amount = u.amount /\ t.isDeposit # u.isDeposit

\* insert: the toast at the front goes if the new one negates it.
Inserted(t, q) ==
    <<t>> \o (IF q # <<>> /\ Negates(t, Head(q)) THEN Tail(q) ELSE q)

Oldest(q) == q[Len(q)]

\* Mutant: pop takes the newest toast.
PoppedNewest(q) == Tail(q)

\* What pop leaves.
Popped(q) == SubSeq(q, 1, Len(q) - 1)

-----------------------------------------------------------------------------
(* Session.                                                                *)

Enqueue(amount, isDeposit) ==
    /\ enqueued < MaxToasts
    /\ enqueued' = enqueued + 1
    /\ queue' = Inserted([number |-> enqueued', amount |-> amount,
                          isDeposit |-> isDeposit], queue)

\* consumeToast: a task of its own for every call that finds a toast queued.
ConsumeToast(q) ==
    IF q = <<>>
    THEN UNCHANGED consumer
    ELSE \E c \in Consumers :
        /\ consumer[c] = Idle
        /\ consumer' = [consumer EXCEPT ![c] = Waiting("settling", SettleTime)]

\* showCashBill; a received bill brings its "+amount" toast.
ShowReceivedBill(amount) ==
    /\ Enqueue(amount, TRUE)
    /\ showing' = TRUE
    /\ UNCHANGED <<toast, consumer>>

\* showCashBill for a bill to give, or TipFlow's tipcard.
ShowBill ==
    /\ ~showing
    /\ showing' = TRUE
    /\ UNCHANGED <<queue, toast, consumer, enqueued>>

\* A grab settled or a link was sent: the "-amount" toast, then dismissCashBill,
\* whatever bill is on screen by then.
Spent(amount) ==
    /\ Enqueue(amount, FALSE)
    /\ showing' = FALSE
    /\ ConsumeToast(queue')
    /\ UNCHANGED toast

\* dismissCashBill by the user, the background, or a failed operation.
Dismiss ==
    /\ showing' = FALSE
    /\ ConsumeToast(queue)
    /\ UNCHANGED <<queue, toast, enqueued>>

\* A consumer that leaves at the end of its first delay: the bill that covers
\* the screen, or the next toast, will bring another.
Leave(c) ==
    /\ consumer[c] = Waiting("settling", 0)
    /\ showing \/ queue = <<>>
    /\ consumer' = [consumer EXCEPT ![c] = Idle]
    /\ UNCHANGED <<queue, toast, showing, enqueued>>

Show(c) ==
    /\ consumer[c] = Waiting("settling", 0)
    /\ ~showing /\ queue # <<>>
    /\ toast' = Oldest(queue)
    /\ queue' = Popped(queue)
    /\ consumer' = [consumer EXCEPT ![c] = Waiting("displaying", ShowTime)]
    /\ UNCHANGED <<showing, enqueued>>

\* Mutant: the consumer that cleared its toast does not look at the queue.
ClearAndStop(c) ==
    /\ consumer[c] = Waiting("displaying", 0)
    /\ toast' = NoToast
    /\ consumer' = [consumer EXCEPT ![c] = Idle]
    /\ UNCHANGED <<queue, showing, enqueued>>

\* The three seconds are over: whatever toast is up is taken down.
Clear(c) ==
    /\ consumer[c] = Waiting("displaying", 0)
    /\ toast' = NoToast
    /\ consumer' = [consumer EXCEPT ![c] =
                     IF queue = <<>> THEN Idle ELSE Waiting("pausing", GapTime)]
    /\ UNCHANGED <<queue, showing, enqueued>>

\* Mutant: the gap starts over for as long as a toast is queued.
ResumePauses(c) ==
    /\ consumer[c] = Waiting("pausing", 0)
    /\ consumer' = [consumer EXCEPT ![c] =
                     IF queue = <<>> THEN Idle ELSE Waiting("pausing", GapTime)]
    /\ UNCHANGED <<queue, toast, showing, enqueued>>

\* The gap is over: consumeToast again.
Resume(c) ==
    /\ consumer[c] = Waiting("pausing", 0)
    /\ consumer' = [consumer EXCEPT ![c] =
                     IF queue = <<>> THEN Idle
                                     ELSE Waiting("settling", SettleTime)]
    /\ UNCHANGED <<queue, toast, showing, enqueued>>

Consume(c) == Leave(c) \/ Show(c) \/ Clear(c) \/ Resume(c)

\* 500 ms pass.
Tick ==
    /\ \E c \in Consumers : consumer[c].left > 0
    /\ consumer' = [c \in Consumers |->
                       Waiting(consumer[c].at,
                               IF consumer[c].left > 0 THEN consumer[c].left - 1
                                                       ELSE 0)]
    /\ UNCHANGED <<queue, toast, showing, enqueued>>

ToastsNext ==
    \/ \E a \in Amounts : ShowReceivedBill(a) \/ Spent(a)
    \/ ShowBill \/ Dismiss \/ Tick
    \/ \E c \in Consumers : Consume(c)

ToastsSpec == ToastsInit /\ [][ToastsNext]_toastVars

\* Time passes, and a task whose delay is over gets the main actor.
ToastsFairSpec == ToastsSpec /\ WF_toastVars(Tick) /\ \A c \in Consumers : WF_toastVars(Consume(c))
-----------------------------------------------------------------------------
(* Properties.                                                             *)

\* No toast is forgotten: while one is queued a bill covers the screen, whose
\* dismissal starts a consumer, or a consumer is on its way.  Consumers leave
\* on their own, and enqueue starts none.
NoToastStranded ==
    queue # <<>> => showing \/ \E c \in Consumers : consumer[c].at # "idle"

\* However many consumers run side by side, toasts go up oldest first, each
\* once.
OldestFirst ==
    [][toast' \notin {toast, NoToast} =>
        /\ toast # NoToast => toast.number < toast'.number
        /\ \A i \in DOMAIN queue' : toast'.number < queue'[i].number]_toastVars

\* The queue empties unless a bill comes up.
ToastsDrain == queue # <<>> ~> queue = <<>> \/ showing
=============================================================================
