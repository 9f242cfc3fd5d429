------------------------ MODULE ServerStream_proofs ------------------------
(***************************************************************************)
(* Whatever the number of overlapping opens, and wherever cancel falls     *)
(* among their lock sections, no connection is orphaned.                   *)
(***************************************************************************)
EXTENDS ServerStream, TLAPS

\* Who still has to cancel, or can still cancel, the connection g.
Held(g) ==
    \/ opening[g] = "created"
    \/ \E h \in Generations : opening[h] = "stored" /\ g \in toCancel[h]
    \/ task = g /\ (isCancelled => canceller = "locked" /\ cancelling = g)

\* The inductive invariant: every uncancelled running connection is held; a
\* generation not handed out yet has no call; the handle is cancelled once
\* cancel() was called.
Inv ==
    /\ TypeOK
    /\ \A g \in Generations : g > generation => opening[g] = "none"
    /\ isCancelled <=> canceller # "idle"
    /\ \A g \in Generations :
        connection[g] = "running" /\ ~taskCancelled[g] => Held(g)

LEMMA TypeInit == Init => TypeOK
<1> SUFFICES ASSUME Init PROVE TypeOK
    OBVIOUS
<1>1. \A g \in Generations : connection[g] = "none" /\ g > generation
    BY ServerStreamAssumption DEF Init, Generations, None
<1> QED
    BY <1>1 DEF Init, TypeOK, ConnectionStates

LEMMA TypeNext == TypeOK /\ [Next]_vars => TypeOK'
<1> SUFFICES ASSUME TypeOK, [Next]_vars PROVE TypeOK'
    OBVIOUS
<1> USE ServerStreamAssumption
        DEF TypeOK, Generations, None, ConnectionStates
<1>1. CASE Open
  <2>1. generation' \in Generations /\ generation' = generation + 1
      BY <1>1 DEF Open
  <2>2. \A g \in Generations :
           connection'[g] = IF g = generation' THEN "running" ELSE connection[g]
      BY <1>1, <2>1 DEF Open
  <2>3. \A g \in Generations : connection'[g] = "none" <=> g > generation'
      BY <2>1, <2>2
  <2>4. /\ opening' \in [Generations -> {"none", "created", "stored", "returned"}]
        /\ connection' \in [Generations -> ConnectionStates]
      BY <1>1, <2>1 DEF Open
  <2> QED
      BY <1>1, <2>1, <2>3, <2>4 DEF Open
<1>2. CASE Cancel
    BY <1>2 DEF Cancel, connectionVars
<1>3. CASE CancelTask
    BY <1>3 DEF CancelTask, stateVars
<1>4. ASSUME NEW g \in Generations, Store(g) PROVE TypeOK'
  <2>1. /\ task' \in Generations \cup {None}
        /\ opening' \in [Generations -> {"none", "created", "stored", "returned"}]
      BY <1>4 DEF Store
  <2>2. toCancel' \in [Generations -> SUBSET Generations]
    <3>1. CASE generation = g
      <4>1. ({task} \ {None}) \cup (IF isCancelled THEN {g} ELSE {})
              \in SUBSET Generations
          OBVIOUS
      <4> QED
          BY <1>4, <3>1, <4>1 DEF Store
    <3>2. CASE generation # g
        BY <1>4, <3>2 DEF Store
    <3> QED
        BY <3>1, <3>2
  <2> QED
      BY <1>4, <2>1, <2>2 DEF Store, connectionVars
<1>5. ASSUME NEW g \in Generations, Supersede(g) PROVE TypeOK'
    BY <1>5 DEF Supersede, stateVars
<1>6. ASSUME NEW g \in Generations, End(g) PROVE TypeOK'
    BY <1>6 DEF End, stateVars, callVars
<1>7. ASSUME NEW g \in Generations, Finish(g) PROVE TypeOK'
    BY <1>7 DEF Finish, callVars
<1>8. ASSUME NEW g \in Generations, Complete(g) PROVE TypeOK'
    BY <1>8 DEF Complete, stateVars, callVars
<1>9. CASE UNCHANGED vars
    BY <1>9 DEF vars, stateVars, callVars, connectionVars
<1> QED
    BY <1>1, <1>2, <1>3, <1>4, <1>5, <1>6, <1>7, <1>8, <1>9 DEF Next

\* For any MaxOpens, the variables keep their types and a connection exists
\* exactly for the generations open() handed out (State.generation).
THEOREM StreamTypeCorrect == Spec => []TypeOK
BY TypeInit, TypeNext, PTL DEF Spec

LEMMA InvInit == Init => Inv
BY TypeInit, ServerStreamAssumption DEF Init, Inv, Generations, None

LEMMA InvNext == Inv /\ [Next]_vars => Inv'
<1> SUFFICES ASSUME Inv, [Next]_vars PROVE Inv'
    OBVIOUS
<1>0. TypeOK /\ TypeOK'
    BY TypeNext DEF Inv
<1> USE <1>0 DEF Inv, Held, TypeOK, Generations, None
<1>1. CASE Open
  <2>1. generation' \in Generations /\ generation' = generation + 1
      BY <1>1, ServerStreamAssumption DEF Open
  <2> DEFINE n == generation'
  <2>2. opening[n] = "none" /\ opening'[n] = "created"
      BY <1>1, <2>1 DEF Open
  <2>3. \A g \in Generations : g # n => opening'[g] = opening[g]
                                        /\ connection'[g] = connection[g]
      BY <1>1, <2>1 DEF Open
  <2>4. ASSUME NEW g \in Generations, connection'[g] = "running", ~taskCancelled'[g]
        PROVE  Held(g)'
    <3>1. CASE g = n
        BY <3>1, <2>2
    <3>2. CASE g # n
      <4>1. Held(g)
          BY <1>1, <2>3, <2>4, <3>2 DEF Open
      <4> QED
          BY <1>1, <2>2, <2>3, <3>2, <4>1 DEF Open
    <3> QED
        BY <3>1, <3>2
  <2> QED
      BY <1>1, <2>1, <2>3, <2>4 DEF Open
<1>2. CASE Cancel
    BY <1>2 DEF Cancel, connectionVars
<1>3. CASE CancelTask
    BY <1>3 DEF CancelTask, stateVars
<1>4. ASSUME NEW g \in Generations, Store(g) PROVE Inv'
  <2>1. opening[g] = "created" /\ opening'[g] = "stored"
      BY <1>4 DEF Store
  <2>2. \A h \in Generations : h # g => opening'[h] = opening[h]
                                        /\ toCancel'[h] = toCancel[h]
      BY <1>4 DEF Store
  <2>3. UNCHANGED <<generation, isCancelled, canceller, cancelling, connection,
                    taskCancelled>>
      BY <1>4 DEF Store, connectionVars
  <2>4. ASSUME NEW h \in Generations, connection'[h] = "running", ~taskCancelled'[h]
        PROVE  Held(h)'
    <3>1. Held(h)
        BY <2>3, <2>4
    <3>2. CASE h = g
        BY <1>4, <2>1, <2>3, <3>2 DEF Store
    <3>3. CASE h # g /\ task = h
        BY <1>4, <2>1, <2>2, <2>3, <3>1, <3>3 DEF Store
    <3>4. CASE h # g /\ task # h
        BY <2>1, <2>2, <3>1, <3>4
    <3> QED
        BY <3>2, <3>3, <3>4
  <2> QED
      BY <2>1, <2>2, <2>3, <2>4
<1>5. ASSUME NEW g \in Generations, Supersede(g) PROVE Inv'
    BY <1>5 DEF Supersede, stateVars
<1>6. ASSUME NEW g \in Generations, End(g) PROVE Inv'
    BY <1>6 DEF End, stateVars, callVars
<1>7. ASSUME NEW g \in Generations, Finish(g) PROVE Inv'
    BY <1>7 DEF Finish, callVars
<1>8. ASSUME NEW g \in Generations, Complete(g) PROVE Inv'
    BY <1>8 DEF Complete, stateVars, callVars
<1>9. CASE UNCHANGED vars
    BY <1>9 DEF vars, stateVars, callVars, connectionVars
<1> QED
    BY <1>1, <1>2, <1>3, <1>4, <1>5, <1>6, <1>7, <1>8, <1>9 DEF Next

\* For any MaxOpens, once open() and cancel() have returned, a connection that
\* runs uncancelled is the stored one of a handle that is not cancelled
\* (ServerGRPCStream.open and cancel).
THEOREM NobodyOrphaned == Spec => []NoOrphan
<1>1. Inv => NoOrphan
    BY DEF Inv, NoOrphan, AtRest, Held
<1> QED
    BY InvInit, InvNext, <1>1, PTL DEF Spec
=============================================================================
