---------------------------- MODULE SessionCalls ----------------------------
(***************************************************************************)
(* The calls a signed-in session makes to the app's one EventStreamer: a   *)
(* ConversationController per session, one session after the other.  start *)
(* runs in a task that reads the local database before it subscribes; stop *)
(* cancels that task, which nothing in it looks at, and stops the streamer *)
(* from a task of its own.                                                 *)
(*                                                                         *)
(* The actions of this module are the sessions' half of a step; what the   *)
(* streamer does in it is added by the modules that extend this one.       *)
(***************************************************************************)
EXTENDS Naturals, StreamOwners

CONSTANT MaxCalls   \* bound: calls of a kind that wait for the actor

ASSUME SessionCallsAssumption == MaxCalls \in Nat

VARIABLES
    session,    \* the session signed in, named by its owner, or NoOwner
    start,      \* where each session's start task is
    stops,      \* closeConversationStream's tasks waiting for the actor
    ensures     \* ensureConversationStreamConnected's

sessionVars == <<session, start, stops, ensures>>

StartSteps == {"none", "hydrating", "subscribing", "wired", "closed"}

SessionsTypeOK ==
    /\ session \in Owners \cup {NoOwner}
    /\ start \in [Owners -> StartSteps]
    /\ stops \in 0..MaxCalls
    /\ ensures \in 0..MaxCalls

CallsInit ==
    /\ session = NoOwner
    /\ start = [s \in Owners |-> "none"]
    /\ stops = 0
    /\ ensures = 0

\* A session starts and with it its controller, which reads the database.
Login(s) ==
    /\ session = NoOwner
    /\ start[s] = "none"
    /\ session' = s
    /\ start' = [start EXCEPT ![s] = "hydrating"]
    /\ UNCHANGED <<stops, ensures>>

\* hydrateFromDatabase returns and openStream calls the streamer.
Hydrated(s) ==
    /\ start[s] = "hydrating"
    /\ start' = [start EXCEPT ![s] = "subscribing"]
    /\ UNCHANGED <<session, stops, ensures>>

\* subscribe runs on the actor; the controller reads from the pair it returns.
SubscribeRuns(s) ==
    /\ start[s] = "subscribing"
    /\ start' = [start EXCEPT ![s] = "wired"]
    /\ UNCHANGED <<session, stops, ensures>>

\* Mutant: logging out leaves the streamer alone.
LogoutKeepsStream ==
    /\ session # NoOwner
    /\ stops < MaxCalls
    /\ session' = NoOwner
    /\ start' = [start EXCEPT ![session] = IF @ = "wired" THEN "closed" ELSE @]
    /\ UNCHANGED <<stops, ensures>>

\* logout: the controller's stop.  A start that still runs goes on.
Logout ==
    /\ session # NoOwner
    /\ stops < MaxCalls
    /\ session' = NoOwner
    /\ start' = [start EXCEPT ![session] = IF @ = "wired" THEN "closed" ELSE @]
    /\ stops' = stops + 1
    /\ UNCHANGED ensures

\* The scene becomes active.
BecomeActive ==
    /\ session # NoOwner
    /\ ensures < MaxCalls
    /\ ensures' = ensures + 1
    /\ UNCHANGED <<session, start, stops>>

\* Mutant: the stop's task runs whether or not it was called.
StopRunsUncalled ==
    /\ stops' = stops - 1
    /\ UNCHANGED <<session, start, ensures>>

StopRuns ==
    /\ stops > 0
    /\ stops' = stops - 1
    /\ UNCHANGED <<session, start, ensures>>

EnsureRuns ==
    /\ ensures > 0
    /\ ensures' = ensures - 1
    /\ UNCHANGED <<session, start, stops>>

\* What does not touch the streamer.
OffTheActor == (\E s \in Owners : Login(s) \/ Hydrated(s)) \/ Logout \/ BecomeActive
=============================================================================
