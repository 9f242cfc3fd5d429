---------------------------- MODULE ServerStream ----------------------------
(***************************************************************************)
(* ServerGRPCStream: one handle over a sequence of connections, each a     *)
(* task running one server-streaming call.  open, finish and cancel take   *)
(* the lock for a few lines and act on what they read under it after they  *)
(* released it; they may run on any thread.                                *)
(*                                                                         *)
(* A connection is named by the generation that opened it.  The module is  *)
(* the handle alone, under any use of it; who reopens it is its caller's   *)
(* business.                                                               *)
(***************************************************************************)
EXTENDS Naturals

CONSTANT MaxOpens   \* bound: the calls of open that get past the first lock

ASSUME ServerStreamAssumption == MaxOpens \in Nat

Generations == 1..MaxOpens
None == 0

VARIABLES
    \* State, under the lock
    task,           \* the generation whose task is stored, or None
    generation,
    didFinish,
    isCancelled,
    \* the calls, between their lock sections
    opening,        \* of each open(): where it is
    toCancel,       \* of each open(): the generations it still has to cancel
    canceller,      \* where cancel() is
    cancelling,     \* the generation cancel() read under the lock, or None
    \* the connections
    connection,     \* where each task is
    taskCancelled   \* Task.isCancelled of each

stateVars == <<task, generation, didFinish, isCancelled>>
callVars == <<opening, toCancel, canceller, cancelling>>
connectionVars == <<connection, taskCancelled>>
vars == <<stateVars, callVars, connectionVars>>

\* perform is running; it returned or threw; finish let the result through;
\* onComplete was called, or finish suppressed it.
ConnectionStates == {"none", "running", "ended", "completing", "done"}

TypeOK ==
    /\ task \in Generations \cup {None}
    /\ generation \in Generations \cup {None}
    /\ didFinish \in BOOLEAN
    /\ isCancelled \in BOOLEAN
    /\ opening \in [Generations -> {"none", "created", "stored", "returned"}]
    /\ toCancel \in [Generations -> SUBSET Generations]
    /\ canceller \in {"idle", "locked", "returned"}
    /\ cancelling \in Generations \cup {None}
    /\ connection \in [Generations -> ConnectionStates]
    /\ \A g \in Generations : connection[g] = "none" <=> g > generation
    /\ taskCancelled \in [Generations -> BOOLEAN]

Init ==
    /\ task = None
    /\ generation = None
    /\ didFinish = FALSE
    /\ isCancelled = FALSE
    /\ opening = [g \in Generations |-> "none"]
    /\ toCancel = [g \in Generations |-> {}]
    /\ canceller = "idle"
    /\ cancelling = None
    /\ connection = [g \in Generations |-> "none"]
    /\ taskCancelled = [g \in Generations |-> FALSE]

-----------------------------------------------------------------------------
\* Mutant: the task is given the generation read before it was bumped.
OpenTaggedTooEarly ==
    /\ ~isCancelled
    /\ generation < MaxOpens
    /\ generation' = generation + 1
    /\ didFinish' = FALSE
    /\ opening' = [opening EXCEPT ![generation] = "created"]
    /\ connection' = [connection EXCEPT ![generation] = "running"]
    /\ UNCHANGED <<task, isCancelled, toCancel, canceller, cancelling,
                   taskCancelled>>

\* open, first lock section: a new generation, and the task that runs it.  A
\* cancelled handle opens nothing.
Open ==
    /\ ~isCancelled
    /\ generation < MaxOpens
    /\ generation' = generation + 1
    /\ didFinish' = FALSE
    /\ opening' = [opening EXCEPT ![generation'] = "created"]
    /\ connection' = [connection EXCEPT ![generation'] = "running"]
    /\ UNCHANGED <<task, isCancelled, toCancel, canceller, cancelling,
                   taskCancelled>>

\* Mutant: the task is stored whatever happened since the first section.
StoreAlways(g) ==
    /\ opening[g] = "created"
    /\ opening' = [opening EXCEPT ![g] = "stored"]
    /\ toCancel' = [toCancel EXCEPT ![g] = {task} \ {None}]
    /\ task' = g
    /\ UNCHANGED <<generation, didFinish, isCancelled, canceller, cancelling,
                   connectionVars>>

\* open, second lock section: the task is stored unless a later open overtook
\* it; what has to be cancelled is decided here and done outside.
Store(g) ==
    /\ opening[g] = "created"
    /\ opening' = [opening EXCEPT ![g] = "stored"]
    /\ IF generation = g
       THEN /\ task' = g
            /\ toCancel' = [toCancel EXCEPT ![g] =
                 ({task} \ {None}) \cup (IF isCancelled THEN {g} ELSE {})]
       ELSE /\ toCancel' = [toCancel EXCEPT ![g] = {g}]
            /\ UNCHANGED task
    /\ UNCHANGED <<generation, didFinish, isCancelled, canceller, cancelling,
                   connectionVars>>

\* Mutant: open waits for the task it replaced to end.
SupersedeWaits(g) ==
    /\ opening[g] = "stored"
    /\ \A h \in toCancel[g] : connection[h] # "running"
    /\ opening' = [opening EXCEPT ![g] = "returned"]
    /\ toCancel' = [toCancel EXCEPT ![g] = {}]
    /\ taskCancelled' = [h \in Generations |-> taskCancelled[h] \/ h \in toCancel[g]]
    /\ UNCHANGED <<stateVars, canceller, cancelling, connection>>

\* open, after the lock: cancel the previous task, and its own if told to.
Supersede(g) ==
    /\ opening[g] = "stored"
    /\ opening' = [opening EXCEPT ![g] = "returned"]
    /\ toCancel' = [toCancel EXCEPT ![g] = {}]
    /\ taskCancelled' = [h \in Generations |-> taskCancelled[h] \/ h \in toCancel[g]]
    /\ UNCHANGED <<stateVars, canceller, cancelling, connection>>

\* perform returns or throws: the server ends the call, it breaks, or the task
\* was cancelled.
End(g) ==
    /\ connection[g] = "running"
    /\ connection' = [connection EXCEPT ![g] = "ended"]
    /\ UNCHANGED <<stateVars, callVars, taskCancelled>>

\* finish, its lock section.
Finish(g) ==
    /\ connection[g] = "ended"
    /\ IF generation = g /\ ~didFinish /\ ~isCancelled
       THEN /\ didFinish' = TRUE
            /\ connection' = [connection EXCEPT ![g] = "completing"]
       ELSE /\ connection' = [connection EXCEPT ![g] = "done"]
            /\ UNCHANGED didFinish
    /\ UNCHANGED <<task, generation, isCancelled, callVars, taskCancelled>>

\* finish, after the lock: onComplete(result).
Complete(g) ==
    /\ connection[g] = "completing"
    /\ connection' = [connection EXCEPT ![g] = "done"]
    /\ UNCHANGED <<stateVars, callVars, taskCancelled>>

\* cancel, its lock section.
Cancel ==
    /\ canceller = "idle"
    /\ canceller' = "locked"
    /\ isCancelled' = TRUE
    /\ didFinish' = TRUE
    /\ cancelling' = task
    /\ UNCHANGED <<task, generation, opening, toCancel, connectionVars>>

\* cancel, after the lock.
CancelTask ==
    /\ canceller = "locked"
    /\ canceller' = "returned"
    /\ cancelling' = None
    /\ taskCancelled' = [h \in Generations |-> taskCancelled[h] \/ h = cancelling]
    /\ UNCHANGED <<stateVars, opening, toCancel, connection>>

Next ==
    \/ Open \/ Cancel \/ CancelTask
    \/ \E g \in Generations :
        Store(g) \/ Supersede(g) \/ End(g) \/ Finish(g) \/ Complete(g)

Spec == Init /\ [][Next]_vars

\* A thread inside open, finish or cancel goes on, and perform ends once its
\* task is cancelled.
Fairness ==
    /\ WF_vars(CancelTask)
    /\ \A g \in Generations :
        /\ WF_vars(Store(g) \/ Supersede(g))
        /\ WF_vars(taskCancelled[g] /\ End(g))
        /\ WF_vars(Finish(g) \/ Complete(g))

FairSpec == Spec /\ Fairness
-----------------------------------------------------------------------------
(* Properties.                                                             *)

AtRest ==
    canceller # "locked" /\ \A g \in Generations : opening[g] \in {"none", "returned"}

\* Once the calls have returned, a connection that runs uncancelled is the one
\* the handle can still cancel, and a cancelled handle has none: no interleaving
\* of the lock sections leaves a connection nobody holds.
NoOrphan ==
    AtRest => \A g \in Generations :
        connection[g] = "running" /\ ~taskCancelled[g] => task = g /\ ~isCancelled

\* A cancelled handle falls silent: no connection stays up.
CancelEndsConnections ==
    isCancelled ~> \A g \in Generations : connection[g] # "running"
=============================================================================
